---- MODULE Spec2Model ----
(***************************************************************************)
(* Model of the batch translation engine of whisper-subtitle-cli           *)
(* (src/src/translator.py): the delimiter encoding of line breaks, the     *)
(* parser of numbered batch responses, and translate_segments with its     *)
(* recursive split-on-failure algorithm, run against a generation service  *)
(* that answers each request with any response or any failure.             *)
(*                                                                         *)
(* Texts are sequences of one-character strings, so that strip, split,     *)
(* replace and the regular expression of the parser are computed           *)
(* character by character, as the Python code computes them.               *)
(***************************************************************************)
EXTENDS Integers, Sequences, FiniteSets, TLC

VARIABLES
    \* ---- translate_segments and _translate_batch_recursive ----
    segments,             \* the caller's list of segments
    batch_size,           \* self.batch_size
    has_callback,         \* whether progress_callback is given
    pc,                   \* "start", "loop", "call", "done", "raised"; "off" in the other specifications
    batch_start,          \* loop variable of translate_segments
    translated_segments,  \* accumulator of translate_segments
    stack,                \* active calls of _translate_batch_recursive, innermost last
    ret,                  \* value returned by the call that just ended
    progress_calls,       \* (current, total) pairs the callback received
    requests,             \* requests issued to the service, in order
    last,                 \* the last service interaction and what the code made of it
    exc,                  \* the exception that ended the call, if any
    \* ---- _preserve_linebreaks / _restore_linebreaks ----
    text, preserved, restored, lb_pc,
    \* ---- _parse_batch_response ----
    response, expected_count, parsed, parse_pc,
    \* ---- translate_text and check_connection, called on their own ----
    tt_text,              \* the text given to translate_text
    tt_pc,                \* "ready", "returned", "raised"; "off" in the other specifications
    tt_posts,             \* calls of requests.post made by translate_text
    tt_outcome,           \* what requests.post did
    tt_result,            \* what translate_text returned or raised
    tt_timeout,           \* the timeout translate_text gave its request
    tb_segs,              \* the segments given to _try_translate_batch
    tb_batch_size,        \* self.batch_size of the translator
    tb_pc,                \* "ready", "returned", "raised"; "off" in the other specifications
    tb_outcome,           \* what requests.post did
    tb_result,            \* what _try_translate_batch returned or raised
    tb_timeout,           \* the timeout _try_translate_batch gave its request
    cc_pc,                \* "ready", "returned", "raised"; "off" in the other specifications
    cc_probe,             \* what requests.get did
    cc_result,            \* what check_connection returned
    \* ---- _build_batch_prompt ----
    bp_texts,             \* argument texts
    bp_translategemma,    \* self._is_translategemma()
    bp_prompt,            \* the prompt returned
    bp_pc,                \* "ready", "returned"; "off" in the other specifications
    \* ---- parse_language and the language tables ----
    lang_codes,           \* LANGUAGE_CODES: items (name, code) in insertion order
    lang_names,           \* LANGUAGE_NAMES: items (code, name) in insertion order
    lang_input,           \* argument language
    lang_result,          \* the pair returned, or None
    lang_pc,              \* "ready", "returned"; "off" in the other specifications
    \* ---- translate_subtitles (main.py) ----
    wf_yes,               \* argument yes
    wf_language_name,     \* argument language_name, or None
    wf_source_lang,       \* local source_lang
    wf_target_lang,       \* local target_lang
    wf_want_bilingual,    \* local want_bilingual
    wf_connected,         \* what check_connection returned: "unknown", "True", "False"
    wf_events,            \* the calls made and the messages and files written, in order
    wf_result,            \* the value returned: "pending", "None", "time"
    wf_pc,                \* "start", "probe", "translate", "write", "bilingual", "returned"; or "off"
    \* ---- OllamaTranslator.__init__ and the partitioning of translate_segments ----
    init_batch_size,      \* constructor argument batch_size
    init_config,          \* the 'batch_size' entry of config['ollama'] as load_config returned it
    self_batch_size,      \* self.batch_size
    ts_total,             \* total = len(segments) of the call of translate_segments
    ts_batch_starts,      \* the values of batch_start the loop took
    ts_returned,          \* how many segments the call returned
    ts_outcome,           \* "pending", "returned", "ValueError", "TypeError"
    init_pc,              \* "new", "constructed", "ended"; "off" in the other specifications
    \* ---- load_config ----
    cfg_exists,           \* config_path.exists()
    cfg_file,             \* the sections 'ollama' and 'output' of the file, when it has them
    cfg_result,           \* what load_config returned
    cfg_pc,               \* "ready", "returned"; "off" in the other specifications
    \* ---- VideoDownloader.sanitize_filename ----
    title,                \* argument title
    max_length,           \* argument max_length
    sanitized,            \* the value returned
    sanitize_pc           \* "ready", "returned"; "off" in the other specifications

vars == <<segments, batch_size, has_callback, pc, batch_start, translated_segments,
          stack, ret, progress_calls, requests, last, exc,
          text, preserved, restored, lb_pc,
          response, expected_count, parsed, parse_pc,
          tt_text, tt_pc, tt_posts, tt_outcome, tt_result, tt_timeout,
          tb_segs, tb_batch_size, tb_pc, tb_outcome, tb_result, tb_timeout,
          cc_pc, cc_probe, cc_result,
          bp_texts, bp_translategemma, bp_prompt, bp_pc,
          lang_codes, lang_names, lang_input, lang_result, lang_pc,
          wf_yes, wf_language_name, wf_source_lang, wf_target_lang, wf_want_bilingual,
          wf_connected, wf_events, wf_result, wf_pc,
          init_batch_size, init_config, self_batch_size, ts_total, ts_batch_starts,
          ts_returned, ts_outcome, init_pc,
          cfg_exists, cfg_file, cfg_result, cfg_pc,
          title, max_length, sanitized, sanitize_pc>>

engineVars == <<segments, batch_size, has_callback, pc, batch_start, translated_segments,
                stack, ret, progress_calls, requests, last, exc>>
lbVars == <<text, preserved, restored, lb_pc>>
parseVars == <<response, expected_count, parsed, parse_pc>>
clientVars == <<tt_text, tt_pc, tt_posts, tt_outcome, tt_result, tt_timeout,
                tb_segs, tb_batch_size, tb_pc, tb_outcome, tb_result, tb_timeout,
                cc_pc, cc_probe, cc_result>>
promptVars == <<bp_texts, bp_translategemma, bp_prompt, bp_pc>>
languageVars == <<lang_codes, lang_names, lang_input, lang_result, lang_pc>>
constructVars == <<init_batch_size, init_config, self_batch_size, ts_total, ts_batch_starts,
                   ts_returned, ts_outcome, init_pc>>
workflowVars == <<wf_yes, wf_language_name, wf_source_lang, wf_target_lang, wf_want_bilingual,
                  wf_connected, wf_events, wf_result, wf_pc>>
configVars == <<cfg_exists, cfg_file, cfg_result, cfg_pc>>
sanitizeVars == <<title, max_length, sanitized, sanitize_pc>>

\* what the actions of one part leave alone
nonEngineVars ==
    <<lbVars, parseVars, clientVars, configVars, sanitizeVars, promptVars, languageVars,
      workflowVars, constructVars>>
nonLbVars ==
    <<engineVars, parseVars, clientVars, configVars, sanitizeVars, promptVars, languageVars,
      workflowVars, constructVars>>
nonParseVars ==
    <<engineVars, lbVars, clientVars, configVars, sanitizeVars, promptVars, languageVars,
      workflowVars, constructVars>>
nonClientVars ==
    <<engineVars, lbVars, parseVars, configVars, sanitizeVars, promptVars, languageVars,
      workflowVars, constructVars>>
nonConfigVars ==
    <<engineVars, lbVars, parseVars, clientVars, sanitizeVars, promptVars, languageVars,
      workflowVars, constructVars>>
nonPromptVars ==
    <<engineVars, lbVars, parseVars, clientVars, configVars, sanitizeVars, languageVars,
      workflowVars, constructVars>>
nonLanguageVars ==
    <<engineVars, lbVars, parseVars, clientVars, configVars, sanitizeVars, promptVars,
      workflowVars, constructVars>>
nonWorkflowVars ==
    <<engineVars, lbVars, parseVars, clientVars, configVars, sanitizeVars, promptVars,
      languageVars, constructVars>>
nonSanitizeVars ==
    <<engineVars, lbVars, parseVars, clientVars, configVars, promptVars, languageVars,
      workflowVars, constructVars>>
nonConstructVars ==
    <<engineVars, lbVars, parseVars, clientVars, configVars, sanitizeVars, promptVars,
      languageVars, workflowVars>>

----------------------------------------------------------------------------
(* Bounds of the model *)

\* longest list of segments given to translate_segments
MaxSegments == 3

\* longest title given to sanitize_filename, the example title apart
MaxTitleLen == 5

\* longest list of texts given to _build_batch_prompt
MaxPromptTexts == 3
\* largest configured batch size
MaxBatchSize == 3
\* longest text given to the line-break round trip
MaxTextLen == 5
\* most lines of a response given to the parser
MaxLines == 3
\* largest expected_count given to the parser
MaxExpected == 3

----------------------------------------------------------------------------
(* Characters and Python string primitives *)

NL == "\n"
SP == " "

\* str.isspace for the characters of the model
IsSpace(c) == c \in {" ", "\n", "\t", "\r"}

\* the decimal digits \d matches, and their values
DigitValue(c) ==
    CASE c = "0" -> 0 [] c = "1" -> 1 [] c = "2" -> 2 [] c = "3" -> 3 [] c = "4" -> 4
      [] c = "5" -> 5 [] c = "6" -> 6 [] c = "7" -> 7 [] c = "8" -> 8 [] c = "9" -> 9

IsDigit(c) == c \in {"0", "1", "2", "3", "4", "5", "6", "7", "8", "9"}

DigitChar(d) ==
    CASE d = 0 -> "0" [] d = 1 -> "1" [] d = 2 -> "2" [] d = 3 -> "3" [] d = 4 -> "4"
      [] d = 5 -> "5" [] d = 6 -> "6" [] d = 7 -> "7" [] d = 8 -> "8" [] d = 9 -> "9"

\* str(n) for n >= 0, as the f-string of the batch prompt formats i + 1
RECURSIVE IntToStr(_)
IntToStr(n) ==
    IF n < 10 THEN <<DigitChar(n)>>
    ELSE IntToStr(n \div 10) \o <<DigitChar(n % 10)>>

\* int(s) for a string of digits
RECURSIVE StrToInt(_)
StrToInt(s) ==
    IF s = <<>> THEN 0
    ELSE 10 * StrToInt(SubSeq(s, 1, Len(s) - 1)) + DigitValue(s[Len(s)])

\* s[i:] with a 1-based i
Drop(s, i) == SubSeq(s, i, Len(s))

\* str.lstrip, str.rstrip, str.strip
RECURSIVE LStrip(_)
LStrip(s) ==
    IF s # <<>> /\ IsSpace(Head(s)) THEN LStrip(Tail(s)) ELSE s

RECURSIVE RStrip(_)
RStrip(s) ==
    IF s # <<>> /\ IsSpace(s[Len(s)]) THEN RStrip(SubSeq(s, 1, Len(s) - 1)) ELSE s

StripNothing(s) == s

Strip(s) == RStrip(LStrip(s))

\* whether s starts with p
StartsWith(s, p) ==
    /\ Len(p) <= Len(s)
    /\ SubSeq(s, 1, Len(p)) = p

\* `sub in s`
Contains(s, sub) ==
    \E i \in 1..(Len(s) - Len(sub) + 1) : SubSeq(s, i, i + Len(sub) - 1) = sub

\* str.replace(old, new): leftmost occurrences, not overlapping, old not empty
RECURSIVE Replace(_, _, _)
Replace(s, old, new) ==
    IF s = <<>> THEN <<>>
    ELSE IF StartsWith(s, old) THEN new \o Replace(Drop(s, Len(old) + 1), old, new)
    ELSE <<Head(s)>> \o Replace(Tail(s), old, new)

\* str.split('\n'): the pieces between the newlines, empty pieces kept
RECURSIVE SplitLines(_)
SplitLines(s) ==
    IF \A i \in 1..Len(s) : s[i] # NL THEN <<s>>
    ELSE LET k == CHOOSE i \in 1..Len(s) : s[i] = NL /\ \A j \in 1..(i - 1) : s[j] # NL
         IN  <<SubSeq(s, 1, k - 1)>> \o SplitLines(Drop(s, k + 1))

\* "\n".join(lines)
RECURSIVE JoinLines(_)
JoinLines(lines) ==
    IF lines = <<>> THEN <<>>
    ELSE IF Len(lines) = 1 THEN lines[1]
    ELSE lines[1] \o <<NL>> \o JoinLines(Tail(lines))

\* an optional value: None, or a value
None == [isNone |-> TRUE, val |-> <<>>]
Some(v) == [isNone |-> FALSE, val |-> v]

\* values of Python as a configuration file or a caller may give them: an int,
\* None, a str; Absent is a key that a dict does not have
PyInt(n) == [type |-> "int", val |-> n]
PyNone == [type |-> "NoneType", val |-> 0]
PyStr == [type |-> "str", val |-> 10]
Absent == [type |-> "absent", val |-> 0]

\* the truth value of a value, as `or` tests it
Truthy(v) == IF v.type = "int" THEN v.val # 0 ELSE v.type = "str"

----------------------------------------------------------------------------
(* Line-break preservation *)

LINE_DELIMITER == <<" ", "|", "|", " ">>

PreserveLinebreaksNoop(t) == t
PreserveLinebreaks(t) == Replace(t, <<NL>>, LINE_DELIMITER)

RestoreLinebreaksNoop(t) == t
RestoreLinebreaks(t) == Replace(t, LINE_DELIMITER, <<NL>>)

----------------------------------------------------------------------------
(* Response parsing and validation: _parse_batch_response *)

\* the length of the longest prefix of digits, what (\d+) takes
RECURSIVE DigitPrefixLen(_)
DigitPrefixLen(s) ==
    IF s # <<>> /\ IsDigit(Head(s)) THEN 1 + DigitPrefixLen(Tail(s)) ELSE 0

\* re.match(r'^(\d+)\.\s*(.+)$', line): whether it matches, group 1 and group 2.
\* (\d+) must be followed by the period, so it takes every leading digit; \s* is
\* greedy and gives back one character when (.+) would be left with nothing.
MatchPattern(line) ==
    LET d == DigitPrefixLen(line)
        rest == Drop(line, d + 2)
        body == LStrip(rest)
    IN  IF /\ d >= 1
           /\ Len(line) >= d + 2
           /\ line[d + 1] = "."
           /\ \A i \in 1..Len(rest) : rest[i] # NL
        THEN [matched |-> TRUE,
              group1 |-> SubSeq(line, 1, d),
              group2 |-> IF body # <<>> THEN body ELSE <<rest[Len(rest)]>>]
        ELSE [matched |-> FALSE, group1 |-> <<>>, group2 |-> <<>>]

DictSetOnce(dict, num, t) ==
    [k \in (DOMAIN dict) \cup {num} |-> IF k \in DOMAIN dict THEN dict[k] ELSE t]

\* translations[num] = text
DictSet(dict, num, t) ==
    [k \in (DOMAIN dict) \cup {num} |-> IF k = num THEN t ELSE dict[k]]

RECURSIVE CollectTranslationsUntilMismatch(_, _)
CollectTranslationsUntilMismatch(lines, translations) ==
    IF lines = <<>> THEN translations
    ELSE LET line == Strip(Head(lines))
             match == MatchPattern(line)
         IN  IF match.matched
             THEN CollectTranslationsUntilMismatch(Tail(lines),
                      DictSet(translations, StrToInt(match.group1), Strip(match.group2)))
             ELSE translations

\* the loop over response.strip().split('\n') that fills the dict translations
RECURSIVE CollectTranslations(_, _)
CollectTranslations(lines, translations) ==
    IF lines = <<>> THEN translations
    ELSE LET line == Strip(Head(lines))
             match == MatchPattern(line)
         IN  IF line = <<>> THEN CollectTranslations(Tail(lines), translations)
             ELSE IF match.matched
             THEN CollectTranslations(Tail(lines),
                      DictSet(translations, StrToInt(match.group1), Strip(match.group2)))
             ELSE CollectTranslations(Tail(lines), translations)

EmptyDict == [k \in {} |-> <<>>]

ParseBatchResponsePartial(resp, count) ==
    LET translations == CollectTranslations(SplitLines(Strip(resp)), EmptyDict)
    IN  Some([i \in 1..count |-> IF i \in DOMAIN translations THEN translations[i] ELSE <<>>])

ParseBatchResponseByArrival(resp, count) ==
    LET lines == SplitLines(Strip(resp))
        hits == SelectSeq([i \in 1..Len(lines) |-> MatchPattern(Strip(lines[i]))],
                          LAMBDA m : m.matched)
    IN  IF Len(hits) < count THEN None
        ELSE Some([i \in 1..count |-> Strip(hits[i].group2)])

\* _parse_batch_response(response, expected_count): the texts numbered
\* 1..expected_count in index order, or None when one of them is missing
ParseBatchResponse(resp, count) ==
    LET translations == CollectTranslations(SplitLines(Strip(resp)), EmptyDict)
    IN  IF \E i \in 1..count : i \notin DOMAIN translations
        THEN None
        ELSE Some([i \in 1..count |-> translations[i]])

----------------------------------------------------------------------------
(* The generation service and its client: _call_ollama *)

\* what requests.post can do: answer 2xx with a body, or fail: the connection
\* is refused, connecting times out, the response times out, the status is not
\* 2xx (raise_for_status), or another failure of requests
ServiceFailures == {"connection", "connect_timeout", "timeout", "http", "other"}

\* the classes of requests.exceptions the exception of a failure is an instance
\* of; ConnectTimeout derives from ConnectionError and from Timeout
ExceptionBases(kind) ==
    CASE kind = "connection" -> {"ConnectionError", "RequestException"}
      [] kind = "connect_timeout" ->
           {"ConnectTimeout", "ConnectionError", "Timeout", "RequestException"}
      [] kind = "timeout" -> {"ReadTimeout", "Timeout", "RequestException"}
      [] kind = "http" -> {"HTTPError", "RequestException"}
      [] kind = "other" -> {"RequestException"}

\* what e.response of an HTTPError holds: no response, a body that is not
\* JSON, a JSON object without "error", a JSON object with "error"
ErrorPayloads == {"absent", "text", "json", "json_error"}

Ok(body) == [kind |-> "ok", body |-> body, error |-> "absent"]
Failure(kind) == [kind |-> kind, body |-> <<>>, error |-> "absent"]
HttpFailure(payload) == [kind |-> "http", body |-> <<>>, error |-> payload]

\* the texts the messages are made of
ServiceErrorText == "model not found"
ExceptionText == "str(e)"

\* error_msg of the HTTPError clause: the "error" of the response's JSON, or
\* str(e) when the object has none, the body is no JSON or there is no response
ErrorMsg(o) == IF o.error = "json_error" THEN ServiceErrorText ELSE ExceptionText

CallOllamaTimeoutFirst(o) ==
    IF o.kind = "ok"
    THEN [raised |-> "none", message |-> <<>>, value |-> Strip(o.body)]
    ELSE IF "Timeout" \in ExceptionBases(o.kind)
    THEN [raised |-> "RuntimeError",
          message |-> <<"Translation request ", "timed out">>, value |-> <<>>]
    ELSE IF "ConnectionError" \in ExceptionBases(o.kind)
    THEN [raised |-> "ConnectionError",
          message |-> <<"Cannot connect to Ollama", " at ", "base_url",
                        ". Make sure Ollama is running (ollama serve).">>,
          value |-> <<>>]
    ELSE IF "HTTPError" \in ExceptionBases(o.kind)
    THEN [raised |-> "RuntimeError",
          message |-> <<"Ollama API error: ", ErrorMsg(o)>>, value |-> <<>>]
    ELSE [raised |-> "RuntimeError",
          message |-> <<"Translation failed: ", ExceptionText>>, value |-> <<>>]

\* _call_ollama(prompt, timeout): the stripped "response" field, or the exception
\* raised by the first except clause whose class the failure is an instance of.
\* A message is the sequence of the pieces it is formatted from.
CallOllama(o) ==
    IF o.kind = "ok"
    THEN [raised |-> "none", message |-> <<>>, value |-> Strip(o.body)]
    ELSE IF "ConnectionError" \in ExceptionBases(o.kind)
    THEN [raised |-> "ConnectionError",
          message |-> <<"Cannot connect to Ollama", " at ", "base_url",
                        ". Make sure Ollama is running (ollama serve).">>,
          value |-> <<>>]
    ELSE IF "Timeout" \in ExceptionBases(o.kind)
    THEN [raised |-> "RuntimeError",
          message |-> <<"Translation request ", "timed out">>, value |-> <<>>]
    ELSE IF "HTTPError" \in ExceptionBases(o.kind)
    THEN [raised |-> "RuntimeError",
          message |-> <<"Ollama API error: ", ErrorMsg(o)>>, value |-> <<>>]
    ELSE [raised |-> "RuntimeError",
          message |-> <<"Translation failed: ", ExceptionText>>, value |-> <<>>]

\* timeout of a single-segment request
SingleTimeout == 60

TranslateTextAlwaysRestores(t, o) ==
    LET result == CallOllama(o)
    IN  IF result.raised # "none" THEN result
        ELSE [result EXCEPT !.value = RestoreLinebreaks(result.value)]

\* translate_text(text, source_lang, target_lang) when the service does o
TranslateText(t, o) ==
    LET has_linebreaks == Contains(t, <<NL>>)
        result == CallOllama(o)
    IN  IF result.raised # "none" THEN result
        ELSE [result EXCEPT !.value =
                 IF has_linebreaks THEN RestoreLinebreaks(result.value) ELSE result.value]

\* what requests.get of the probe can do: answer with a status, or fail
Probe(status) == [kind |-> "ok", status |-> status]
ProbeFailure(kind) == [kind |-> kind, status |-> 0]

CheckConnectionAnySuccess(p) ==
    IF p.kind = "ok" THEN [raised |-> "none", value |-> p.status < 400]
    ELSE IF "RequestException" \in ExceptionBases(p.kind)
    THEN [raised |-> "none", value |-> FALSE]
    ELSE [raised |-> p.kind, value |-> FALSE]

\* check_connection(): response.status_code == 200, and False for an exception
\* that is a RequestException
CheckConnectionResult(p) ==
    IF p.kind = "ok" THEN [raised |-> "none", value |-> p.status = 200]
    ELSE IF "RequestException" \in ExceptionBases(p.kind)
    THEN [raised |-> "none", value |-> FALSE]
    ELSE [raised |-> p.kind, value |-> FALSE]

BatchTimeoutFlat(segs) == 120

\* the timeout of a batch request: max(120, len(segments) * 5)
BatchTimeout(segs) == IF Len(segs) * 5 > 120 THEN Len(segs) * 5 ELSE 120

\* _build_batch_prompt(texts, source_lang, target_lang): which instructions the
\* prompt opens with, whether it asks to keep the delimiters, and the numbered
\* lines it ends with
BuildBatchPrompt(texts, translategemma) ==
    LET preserved_texts == [i \in 1..Len(texts) |-> PreserveLinebreaks(texts[i])]
    IN  [instructions |-> IF translategemma THEN "translategemma" ELSE "generic",
         delimiter_instruction |->
             \E i \in 1..Len(texts) : Contains(preserved_texts[i], LINE_DELIMITER),
         numbered_lines |->
             JoinLines([i \in 1..Len(texts) |-> IntToStr(i) \o <<".", " ">> \o preserved_texts[i]])]

TryTranslateBatchReversed(segs, o) ==
    LET call == CallOllama(o)
        translated_texts == ParseBatchResponse(call.value, Len(segs))
    IN  IF segs = <<>> THEN [raised |-> "none", value |-> Some(<<>>)]
        ELSE IF call.raised # "none" THEN [raised |-> call.raised, value |-> None]
        ELSE IF translated_texts.isNone THEN [raised |-> "none", value |-> None]
        ELSE [raised |-> "none",
              value |-> Some([i \in 1..Len(segs) |->
                          [start |-> segs[i].start,
                           end |-> segs[i].end,
                           text |-> RestoreLinebreaks(translated_texts.val[Len(segs) + 1 - i])]])]

\* _try_translate_batch(segments, source_lang, target_lang) when the service
\* does o: the translated segments, None when validation fails, or the
\* exception of _call_ollama, which no handler catches
TryTranslateBatch(segs, o) ==
    LET call == CallOllama(o)
        translated_texts == ParseBatchResponse(call.value, Len(segs))
    IN  IF segs = <<>> THEN [raised |-> "none", value |-> Some(<<>>)]
        ELSE IF call.raised # "none" THEN [raised |-> call.raised, value |-> None]
        ELSE IF translated_texts.isNone THEN [raised |-> "none", value |-> None]
        ELSE [raised |-> "none",
              value |-> Some([i \in 1..Len(segs) |->
                          [start |-> segs[i].start,
                           end |-> segs[i].end,
                           text |-> RestoreLinebreaks(translated_texts.val[i])]])]

----------------------------------------------------------------------------
(* Inputs: the segments of the caller and the answers of the service *)

\* texts of the caller's segments: one line, and two lines
SegmentTexts == { <<"a">>, <<"b", NL, "c">> }

\* segment i of a list: times that differ from segment to segment
MakeSegment(i, t) == [start |-> 2 * i - 2, end |-> 2 * i - 1, text |-> t]

\* "{n}. {content}"
NumberedLine(n, content) == IntToStr(n) \o <<".", " ">> \o content

\* content the service may give line i: plain, or with a delimiter in it
PlainContent(i) == <<"T">> \o IntToStr(i)
DelimContent(i) == <<"T">> \o LINE_DELIMITER \o IntToStr(i)

Reverse(q) == [i \in 1..Len(q) |-> q[Len(q) + 1 - i]]

\* bodies the service may answer a batch request of n lines with
WellFormedBodies(n) ==
    { JoinLines([i \in 1..n |-> NumberedLine(i, PlainContent(i))]),
      JoinLines([i \in 1..n |-> NumberedLine(i, DelimContent(i))]),
      \* a preamble, the lines in reverse order, blank lines and padding
      <<"O", "k", NL, NL>>
        \o JoinLines(Reverse([i \in 1..n |-> <<SP>> \o NumberedLine(i, PlainContent(i)) \o <<SP>>]))
        \o <<NL>> }

MalformedBodies(n) ==
    \* a line is missing
    { JoinLines(SelectSeq([i \in 1..n |-> IF i = k THEN <<>> ELSE NumberedLine(i, PlainContent(i))],
                          LAMBDA l : l # <<>>)) : k \in 1..n }
    \* no numbered line at all, and lines numbered from 2
    \cup { <<"S", "o", "r", "r", "y">>,
           JoinLines([i \in 1..n |-> NumberedLine(i + 1, PlainContent(i))]) }

BatchOutcomes(n) ==
    { Ok(b) : b \in WellFormedBodies(n) \cup MalformedBodies(n) }
      \cup { Failure(k) : k \in ServiceFailures }

\* bodies the service may answer a single-segment request with
SingleBodies == { <<"S">>, <<SP, "S", NL>>, <<"S">> \o LINE_DELIMITER \o <<"S">> }

SingleOutcomes == { Ok(b) : b \in SingleBodies } \cup { Failure(k) : k \in ServiceFailures }

----------------------------------------------------------------------------
(* translate_segments and _translate_batch_recursive *)

NoInteraction ==
    [op |-> "none", segs |-> <<>>, offset |-> 0, outcome |-> "none",
     value |-> None, raised |-> "none", returned |-> None]

\* how the service answered a batch request of n lines, for the log of requests
Answer(o, n) ==
    IF o.kind # "ok" THEN o.kind
    ELSE IF o.body \in WellFormedBodies(n) THEN "wellformed"
    ELSE "malformed"

Frame(segs, offset) == [segs |-> segs, progress_offset |-> offset, at |-> "try", left |-> <<>>]

Top == stack[Len(stack)]
Pop(st) == SubSeq(st, 1, Len(st) - 1)
SetTop(st, f) == [st EXCEPT ![Len(st)] = f]

\* progress_callback(current, total), when a callback was given
Report(current) ==
    IF has_callback THEN Append(progress_calls, <<current, Len(segments)>>) ELSE progress_calls

Min(a, b) == IF a < b THEN a ELSE b

EngineInit ==
    /\ \E n \in 0..MaxSegments : \E texts \in [1..n -> SegmentTexts] :
          segments = [i \in 1..n |-> MakeSegment(i, texts[i])]
    /\ batch_size \in 1..MaxBatchSize
    /\ has_callback \in BOOLEAN
    /\ pc = "start"
    /\ batch_start = 0
    /\ translated_segments = <<>>
    /\ stack = <<>>
    /\ ret = None
    /\ progress_calls = <<>>
    /\ requests = <<>>
    /\ last = NoInteraction
    /\ exc = "none"

\* translate_segments, up to the loop: an empty list is returned at once
TranslateSegmentsEnter ==
    /\ pc = "start"
    /\ pc' = IF segments = <<>> THEN "done" ELSE "loop"
    /\ translated_segments' = <<>>
    /\ batch_start' = 0
    /\ UNCHANGED <<segments, batch_size, has_callback, stack, ret, progress_calls,
                   requests, last, exc>>
    /\ UNCHANGED nonEngineVars

NextBatchOffsetZero ==
    /\ pc = "loop"
    /\ IF batch_start < Len(segments)
       THEN LET batch_end == Min(batch_start + batch_size, Len(segments))
                batch == SubSeq(segments, batch_start + 1, batch_end)
            IN  /\ stack' = <<Frame(batch, 0)>>
                /\ pc' = "call"
       ELSE /\ stack' = stack
            /\ pc' = "done"
    /\ ret' = None
    /\ UNCHANGED <<segments, batch_size, has_callback, batch_start, translated_segments,
                   progress_calls, requests, last, exc>>
    /\ UNCHANGED nonEngineVars

\* one turn of `for batch_start in range(0, total, self.batch_size)`: the call of
\* _translate_batch_recursive on the next batch, or the return after the last
NextBatch ==
    /\ pc = "loop"
    /\ IF batch_start < Len(segments)
       THEN LET batch_end == Min(batch_start + batch_size, Len(segments))
                batch == SubSeq(segments, batch_start + 1, batch_end)
            IN  /\ stack' = <<Frame(batch, batch_start)>>
                /\ pc' = "call"
       ELSE /\ stack' = stack
            /\ pc' = "done"
    /\ ret' = None
    /\ UNCHANGED <<segments, batch_size, has_callback, batch_start, translated_segments,
                   progress_calls, requests, last, exc>>
    /\ UNCHANGED nonEngineVars

ExtendResultStepOne ==
    /\ pc = "call"
    /\ stack = <<>>
    /\ ~ret.isNone
    /\ translated_segments' = translated_segments \o ret.val
    /\ batch_start' = batch_start + 1
    /\ ret' = None
    /\ pc' = "loop"
    /\ UNCHANGED <<segments, batch_size, has_callback, stack, progress_calls, requests,
                   last, exc>>
    /\ UNCHANGED nonEngineVars

ExtendResultInPlace ==
    /\ pc = "call"
    /\ stack = <<>>
    /\ ~ret.isNone
    /\ translated_segments' = translated_segments \o ret.val
    /\ segments' = [i \in 1..Len(segments) |->
                       IF i > batch_start /\ i <= batch_start + Len(ret.val)
                       THEN ret.val[i - batch_start] ELSE segments[i]]
    /\ batch_start' = batch_start + batch_size
    /\ ret' = None
    /\ pc' = "loop"
    /\ UNCHANGED <<batch_size, has_callback, stack, progress_calls, requests,
                   last, exc>>
    /\ UNCHANGED nonEngineVars

\* translated_segments.extend(batch_result), and the step of the range to the
\* next batch_start
ExtendResult ==
    /\ pc = "call"
    /\ stack = <<>>
    /\ ~ret.isNone
    /\ translated_segments' = translated_segments \o ret.val
    /\ batch_start' = batch_start + batch_size
    /\ ret' = None
    /\ pc' = "loop"
    /\ UNCHANGED <<segments, batch_size, has_callback, stack, progress_calls, requests,
                   last, exc>>
    /\ UNCHANGED nonEngineVars

\* the exception leaves _translate_batch_recursive and translate_segments
Raise(e) ==
    /\ pc' = "raised"
    /\ exc' = e
    /\ stack' = <<>>
    /\ ret' = None

\* _translate_batch_recursive from its entry to its first return or inner call:
\* the batch attempt, then the progress report and the return of an accepted
\* attempt, or the step to the single-segment request, or the call on the left half
TryBatch ==
    /\ pc = "call"
    /\ stack # <<>>
    /\ Top.at = "try"
    /\ IF Top.segs = <<>>
       THEN /\ ret' = Some(<<>>)
            /\ stack' = Pop(stack)
            /\ UNCHANGED <<pc, exc, progress_calls, requests, last>>
       ELSE \E o \in BatchOutcomes(Len(Top.segs)) :
              LET segs == Top.segs
                  result == TryTranslateBatch(segs, o)
                  mid == Len(segs) \div 2
              IN  /\ requests' = Append(requests,
                        [op |-> "batch", offset |-> Top.progress_offset,
                         texts |-> [i \in 1..Len(segs) |-> segs[i].text],
                         timeout |-> BatchTimeout(segs),
                         answer |-> Answer(o, Len(segs))])
                  /\ last' = [op |-> "batch", segs |-> segs, offset |-> Top.progress_offset,
                              outcome |-> o.kind, value |-> result.value,
                              raised |-> result.raised, returned |-> result.value]
                  /\ IF result.raised # "none"
                     THEN /\ Raise(result.raised)
                          /\ UNCHANGED progress_calls
                     ELSE IF ~result.value.isNone
                     THEN /\ progress_calls' = Report(Top.progress_offset + Len(segs))
                          /\ ret' = result.value
                          /\ stack' = Pop(stack)
                          /\ UNCHANGED <<pc, exc>>
                     ELSE IF Len(segs) = 1
                     THEN /\ stack' = SetTop(stack, [Top EXCEPT !.at = "single"])
                          /\ UNCHANGED <<pc, exc, ret, progress_calls>>
                     ELSE /\ stack' = Append(SetTop(stack, [Top EXCEPT !.at = "left"]),
                                             Frame(SubSeq(segs, 1, mid), Top.progress_offset))
                          /\ UNCHANGED <<pc, exc, ret, progress_calls>>
    /\ UNCHANGED <<segments, batch_size, has_callback, batch_start, translated_segments>>
    /\ UNCHANGED nonEngineVars

SingleResultUntimed(seg, translated_text) ==
    <<[start |-> 0, end |-> 0, text |-> translated_text]>>

\* the list the base case returns: the segment with the translated text
SingleResult(seg, translated_text) ==
    <<[start |-> seg.start, end |-> seg.end, text |-> translated_text]>>

\* the base case: translate_text on the one segment, which no handler guards,
\* then the progress report and the return
TranslateSingle ==
    /\ pc = "call"
    /\ stack # <<>>
    /\ Top.at = "single"
    /\ \E o \in SingleOutcomes :
          LET seg == Top.segs[1]
              result == TranslateText(seg.text, o)
          IN  /\ requests' = Append(requests,
                    [op |-> "single", offset |-> Top.progress_offset,
                     texts |-> <<seg.text>>, timeout |-> SingleTimeout,
                     answer |-> o.kind])
              /\ last' = [op |-> "single", segs |-> Top.segs, offset |-> Top.progress_offset,
                          outcome |-> o.kind,
                          value |-> IF result.raised = "none" THEN Some(result.value) ELSE None,
                          raised |-> result.raised,
                          returned |-> IF result.raised = "none"
                                       THEN Some(SingleResult(seg, result.value)) ELSE None]
              /\ IF result.raised # "none"
                 THEN /\ Raise(result.raised)
                      /\ UNCHANGED progress_calls
                 ELSE /\ progress_calls' = Report(Top.progress_offset + 1)
                      /\ ret' = Some(SingleResult(seg, result.value))
                      /\ stack' = Pop(stack)
                      /\ UNCHANGED <<pc, exc>>
    /\ UNCHANGED <<segments, batch_size, has_callback, batch_start, translated_segments>>
    /\ UNCHANGED nonEngineVars

SplitRightWhole ==
    /\ pc = "call"
    /\ stack # <<>>
    /\ Top.at = "left"
    /\ ~ret.isNone
    /\ LET mid == Len(Top.segs) \div 2
       IN  stack' = Append(SetTop(stack, [Top EXCEPT !.at = "right", !.left = ret.val]),
                           Frame(Top.segs, Top.progress_offset + mid))
    /\ ret' = None
    /\ UNCHANGED <<segments, batch_size, has_callback, pc, batch_start, translated_segments,
                   progress_calls, requests, last, exc>>
    /\ UNCHANGED nonEngineVars

SplitRightSameOffset ==
    /\ pc = "call"
    /\ stack # <<>>
    /\ Top.at = "left"
    /\ ~ret.isNone
    /\ LET mid == Len(Top.segs) \div 2
       IN  stack' = Append(SetTop(stack, [Top EXCEPT !.at = "right", !.left = ret.val]),
                           Frame(SubSeq(Top.segs, mid + 1, Len(Top.segs)),
                                 Top.progress_offset))
    /\ ret' = None
    /\ UNCHANGED <<segments, batch_size, has_callback, pc, batch_start, translated_segments,
                   progress_calls, requests, last, exc>>
    /\ UNCHANGED nonEngineVars

\* the recursive case after the left half returned: the call on the right half
SplitRight ==
    /\ pc = "call"
    /\ stack # <<>>
    /\ Top.at = "left"
    /\ ~ret.isNone
    /\ LET mid == Len(Top.segs) \div 2
       IN  stack' = Append(SetTop(stack, [Top EXCEPT !.at = "right", !.left = ret.val]),
                           Frame(SubSeq(Top.segs, mid + 1, Len(Top.segs)),
                                 Top.progress_offset + mid))
    /\ ret' = None
    /\ UNCHANGED <<segments, batch_size, has_callback, pc, batch_start, translated_segments,
                   progress_calls, requests, last, exc>>
    /\ UNCHANGED nonEngineVars

SplitJoinRightFirst ==
    /\ pc = "call"
    /\ stack # <<>>
    /\ Top.at = "right"
    /\ ~ret.isNone
    /\ ret' = Some(ret.val \o Top.left)
    /\ stack' = Pop(stack)
    /\ UNCHANGED <<segments, batch_size, has_callback, pc, batch_start, translated_segments,
                   progress_calls, requests, last, exc>>
    /\ UNCHANGED nonEngineVars

\* the recursive case after the right half returned: return left + right
SplitJoin ==
    /\ pc = "call"
    /\ stack # <<>>
    /\ Top.at = "right"
    /\ ~ret.isNone
    /\ ret' = Some(Top.left \o ret.val)
    /\ stack' = Pop(stack)
    /\ UNCHANGED <<segments, batch_size, has_callback, pc, batch_start, translated_segments,
                   progress_calls, requests, last, exc>>
    /\ UNCHANGED nonEngineVars

ClientIdle ==
    /\ tt_text = <<>> /\ tt_pc = "off" /\ tt_posts = 0 /\ tt_outcome = Failure("other")
    /\ tt_result = CallOllama(Failure("other")) /\ tt_timeout = 0
    /\ tb_segs = <<>> /\ tb_batch_size = 1 /\ tb_pc = "off" /\ tb_outcome = Failure("other")
    /\ tb_result = TryTranslateBatch(<<>>, Failure("other")) /\ tb_timeout = 0
    /\ cc_pc = "off" /\ cc_probe = ProbeFailure("other") /\ cc_result = FALSE
----------------------------------------------------------------------------
(* Language names and codes: LANGUAGE_CODES, LANGUAGE_NAMES, parse_language *)

UpperLetters ==
    <<"A", "B", "C", "D", "E", "F", "G", "H", "I", "J", "K", "L", "M",
      "N", "O", "P", "Q", "R", "S", "T", "U", "V", "W", "X", "Y", "Z">>
LowerLetters ==
    <<"a", "b", "c", "d", "e", "f", "g", "h", "i", "j", "k", "l", "m",
      "n", "o", "p", "q", "r", "s", "t", "u", "v", "w", "x", "y", "z">>

IsUpper(c) == \E i \in 1..Len(UpperLetters) : UpperLetters[i] = c
IsLower(c) == \E i \in 1..Len(LowerLetters) : LowerLetters[i] = c
IsCased(c) == IsUpper(c) \/ IsLower(c)
LowerChar(c) ==
    IF IsUpper(c) THEN LowerLetters[CHOOSE i \in 1..Len(UpperLetters) : UpperLetters[i] = c] ELSE c
UpperChar(c) ==
    IF IsLower(c) THEN UpperLetters[CHOOSE i \in 1..Len(LowerLetters) : LowerLetters[i] = c] ELSE c

\* str.lower
Lower(s) == [i \in 1..Len(s) |-> LowerChar(s[i])]

\* str.title: a cased character is in upper case after an uncased one and at
\* the start, in lower case after a cased one
Title(s) ==
    [i \in 1..Len(s) |->
        IF i > 1 /\ IsCased(s[i - 1]) THEN LowerChar(s[i]) ELSE UpperChar(s[i])]

\* a dict as the sequence of its items (key, value) in insertion order
DictHas(items, key) == \E i \in 1..Len(items) : items[i][1] = key
DictGet(items, key) == items[CHOOSE i \in 1..Len(items) : items[i][1] = key][2]

\* the dict literal LANGUAGE_CODES: language name -> code
LANGUAGE_CODES ==
    <<
    << <<"a", "f", "r", "i", "k", "a", "a", "n", "s">>, <<"a", "f">> >>,
    << <<"a", "m", "h", "a", "r", "i", "c">>, <<"a", "m">> >>,
    << <<"a", "r", "a", "b", "i", "c">>, <<"a", "r">> >>,
    << <<"a", "s", "s", "a", "m", "e", "s", "e">>, <<"a", "s">> >>,
    << <<"a", "z", "e", "r", "b", "a", "i", "j", "a", "n", "i">>, <<"a", "z">> >>,
    << <<"b", "a", "s", "h", "k", "i", "r">>, <<"b", "a">> >>,
    << <<"b", "e", "l", "a", "r", "u", "s", "i", "a", "n">>, <<"b", "e">> >>,
    << <<"b", "u", "l", "g", "a", "r", "i", "a", "n">>, <<"b", "g">> >>,
    << <<"b", "e", "n", "g", "a", "l", "i">>, <<"b", "n">> >>,
    << <<"t", "i", "b", "e", "t", "a", "n">>, <<"b", "o">> >>,
    << <<"b", "r", "e", "t", "o", "n">>, <<"b", "r">> >>,
    << <<"b", "o", "s", "n", "i", "a", "n">>, <<"b", "s">> >>,
    << <<"c", "a", "t", "a", "l", "a", "n">>, <<"c", "a">> >>,
    << <<"c", "z", "e", "c", "h">>, <<"c", "s">> >>,
    << <<"w", "e", "l", "s", "h">>, <<"c", "y">> >>,
    << <<"d", "a", "n", "i", "s", "h">>, <<"d", "a">> >>,
    << <<"g", "e", "r", "m", "a", "n">>, <<"d", "e">> >>,
    << <<"g", "r", "e", "e", "k">>, <<"e", "l">> >>,
    << <<"e", "n", "g", "l", "i", "s", "h">>, <<"e", "n">> >>,
    << <<"s", "p", "a", "n", "i", "s", "h">>, <<"e", "s">> >>,
    << <<"e", "s", "t", "o", "n", "i", "a", "n">>, <<"e", "t">> >>,
    << <<"b", "a", "s", "q", "u", "e">>, <<"e", "u">> >>,
    << <<"p", "e", "r", "s", "i", "a", "n">>, <<"f", "a">> >>,
    << <<"f", "i", "n", "n", "i", "s", "h">>, <<"f", "i">> >>,
    << <<"f", "a", "r", "o", "e", "s", "e">>, <<"f", "o">> >>,
    << <<"f", "r", "e", "n", "c", "h">>, <<"f", "r">> >>,
    << <<"g", "a", "l", "i", "c", "i", "a", "n">>, <<"g", "l">> >>,
    << <<"g", "u", "j", "a", "r", "a", "t", "i">>, <<"g", "u">> >>,
    << <<"h", "a", "u", "s", "a">>, <<"h", "a">> >>,
    << <<"h", "a", "w", "a", "i", "i", "a", "n">>, <<"h", "a", "w">> >>,
    << <<"h", "e", "b", "r", "e", "w">>, <<"h", "e">> >>,
    << <<"h", "i", "n", "d", "i">>, <<"h", "i">> >>,
    << <<"c", "r", "o", "a", "t", "i", "a", "n">>, <<"h", "r">> >>,
    << <<"h", "a", "i", "t", "i", "a", "n">>, <<"h", "t">> >>,
    << <<"h", "u", "n", "g", "a", "r", "i", "a", "n">>, <<"h", "u">> >>,
    << <<"a", "r", "m", "e", "n", "i", "a", "n">>, <<"h", "y">> >>,
    << <<"i", "n", "d", "o", "n", "e", "s", "i", "a", "n">>, <<"i", "d">> >>,
    << <<"i", "c", "e", "l", "a", "n", "d", "i", "c">>, <<"i", "s">> >>,
    << <<"i", "t", "a", "l", "i", "a", "n">>, <<"i", "t">> >>,
    << <<"j", "a", "p", "a", "n", "e", "s", "e">>, <<"j", "a">> >>,
    << <<"j", "a", "v", "a", "n", "e", "s", "e">>, <<"j", "w">> >>,
    << <<"g", "e", "o", "r", "g", "i", "a", "n">>, <<"k", "a">> >>,
    << <<"k", "a", "z", "a", "k", "h">>, <<"k", "k">> >>,
    << <<"k", "h", "m", "e", "r">>, <<"k", "m">> >>,
    << <<"k", "a", "n", "n", "a", "d", "a">>, <<"k", "n">> >>,
    << <<"k", "o", "r", "e", "a", "n">>, <<"k", "o">> >>,
    << <<"l", "a", "t", "i", "n">>, <<"l", "a">> >>,
    << <<"l", "u", "x", "e", "m", "b", "o", "u", "r", "g", "i", "s", "h">>, <<"l", "b">> >>,
    << <<"l", "i", "n", "g", "a", "l", "a">>, <<"l", "n">> >>,
    << <<"l", "a", "o">>, <<"l", "o">> >>,
    << <<"l", "i", "t", "h", "u", "a", "n", "i", "a", "n">>, <<"l", "t">> >>,
    << <<"l", "a", "t", "v", "i", "a", "n">>, <<"l", "v">> >>,
    << <<"m", "a", "l", "a", "g", "a", "s", "y">>, <<"m", "g">> >>,
    << <<"m", "a", "o", "r", "i">>, <<"m", "i">> >>,
    << <<"m", "a", "c", "e", "d", "o", "n", "i", "a", "n">>, <<"m", "k">> >>,
    << <<"m", "a", "l", "a", "y", "a", "l", "a", "m">>, <<"m", "l">> >>,
    << <<"m", "o", "n", "g", "o", "l", "i", "a", "n">>, <<"m", "n">> >>,
    << <<"m", "a", "r", "a", "t", "h", "i">>, <<"m", "r">> >>,
    << <<"m", "a", "l", "a", "y">>, <<"m", "s">> >>,
    << <<"m", "a", "l", "t", "e", "s", "e">>, <<"m", "t">> >>,
    << <<"b", "u", "r", "m", "e", "s", "e">>, <<"m", "y">> >>,
    << <<"n", "e", "p", "a", "l", "i">>, <<"n", "e">> >>,
    << <<"d", "u", "t", "c", "h">>, <<"n", "l">> >>,
    << <<"n", "y", "n", "o", "r", "s", "k">>, <<"n", "n">> >>,
    << <<"n", "o", "r", "w", "e", "g", "i", "a", "n">>, <<"n", "o">> >>,
    << <<"o", "c", "c", "i", "t", "a", "n">>, <<"o", "c">> >>,
    << <<"p", "u", "n", "j", "a", "b", "i">>, <<"p", "a">> >>,
    << <<"p", "o", "l", "i", "s", "h">>, <<"p", "l">> >>,
    << <<"p", "a", "s", "h", "t", "o">>, <<"p", "s">> >>,
    << <<"p", "o", "r", "t", "u", "g", "u", "e", "s", "e">>, <<"p", "t">> >>,
    << <<"r", "o", "m", "a", "n", "i", "a", "n">>, <<"r", "o">> >>,
    << <<"r", "u", "s", "s", "i", "a", "n">>, <<"r", "u">> >>,
    << <<"s", "a", "n", "s", "k", "r", "i", "t">>, <<"s", "a">> >>,
    << <<"s", "i", "n", "d", "h", "i">>, <<"s", "d">> >>,
    << <<"s", "i", "n", "h", "a", "l", "a">>, <<"s", "i">> >>,
    << <<"s", "l", "o", "v", "a", "k">>, <<"s", "k">> >>,
    << <<"s", "l", "o", "v", "e", "n", "i", "a", "n">>, <<"s", "l">> >>,
    << <<"s", "h", "o", "n", "a">>, <<"s", "n">> >>,
    << <<"s", "o", "m", "a", "l", "i">>, <<"s", "o">> >>,
    << <<"a", "l", "b", "a", "n", "i", "a", "n">>, <<"s", "q">> >>,
    << <<"s", "e", "r", "b", "i", "a", "n">>, <<"s", "r">> >>,
    << <<"s", "u", "n", "d", "a", "n", "e", "s", "e">>, <<"s", "u">> >>,
    << <<"s", "w", "e", "d", "i", "s", "h">>, <<"s", "v">> >>,
    << <<"s", "w", "a", "h", "i", "l", "i">>, <<"s", "w">> >>,
    << <<"t", "a", "m", "i", "l">>, <<"t", "a">> >>,
    << <<"t", "e", "l", "u", "g", "u">>, <<"t", "e">> >>,
    << <<"t", "a", "j", "i", "k">>, <<"t", "g">> >>,
    << <<"t", "h", "a", "i">>, <<"t", "h">> >>,
    << <<"t", "u", "r", "k", "m", "e", "n">>, <<"t", "k">> >>,
    << <<"t", "a", "g", "a", "l", "o", "g">>, <<"t", "l">> >>,
    << <<"t", "u", "r", "k", "i", "s", "h">>, <<"t", "r">> >>,
    << <<"t", "a", "t", "a", "r">>, <<"t", "t">> >>,
    << <<"u", "k", "r", "a", "i", "n", "i", "a", "n">>, <<"u", "k">> >>,
    << <<"u", "r", "d", "u">>, <<"u", "r">> >>,
    << <<"u", "z", "b", "e", "k">>, <<"u", "z">> >>,
    << <<"v", "i", "e", "t", "n", "a", "m", "e", "s", "e">>, <<"v", "i">> >>,
    << <<"y", "i", "d", "d", "i", "s", "h">>, <<"y", "i">> >>,
    << <<"y", "o", "r", "u", "b", "a">>, <<"y", "o">> >>,
    << <<"c", "h", "i", "n", "e", "s", "e">>, <<"z", "h">> >>,
    << <<"c", "a", "n", "t", "o", "n", "e", "s", "e">>, <<"y", "u", "e">> >>,
    << <<"t", "r", "a", "d", "i", "t", "i", "o", "n", "a", "l", " ", "c", "h", "i", "n", "e", "s", "e">>, <<"z", "h">> >>,
    << <<"t", "a", "i", "w", "a", "n", "e", "s", "e">>, <<"z", "h">> >>
    >>

\* the loop that fills LANGUAGE_NAMES: code -> title-cased name, the first name
\* of a code wins
FillLanguageNames(items) ==
    LET numbered == [i \in 1..Len(items) |-> <<i, items[i][1], items[i][2]>>]
        first == SelectSeq(numbered,
                           LAMBDA e : \A j \in 1..(e[1] - 1) : items[j][2] # e[3])
    IN  [i \in 1..Len(first) |-> <<first[i][3], Title(first[i][2])>>]

LANGUAGE_NAMES == FillLanguageNames(LANGUAGE_CODES)

ParseLanguageCaseSensitive(language, codes, names) ==
    LET lower == Strip(language)
    IN  IF DictHas(codes, lower) THEN Some(<<Title(lower), DictGet(codes, lower)>>)
        ELSE IF DictHas(names, lower) THEN Some(<<DictGet(names, lower), lower>>)
        ELSE None

ParseLanguageUntrimmed(language, codes, names) ==
    LET lower == Lower(language)
    IN  IF DictHas(codes, lower) THEN Some(<<Title(lower), DictGet(codes, lower)>>)
        ELSE IF DictHas(names, lower) THEN Some(<<DictGet(names, lower), lower>>)
        ELSE None

\* parse_language(language), reading the tables codes (LANGUAGE_CODES) and
\* names (LANGUAGE_NAMES)
ParseLanguage(language, codes, names) ==
    LET lower == Strip(Lower(language))
    IN  IF DictHas(codes, lower) THEN Some(<<Title(lower), DictGet(codes, lower)>>)
        ELSE IF DictHas(names, lower) THEN Some(<<DictGet(names, lower), lower>>)
        ELSE None

\* dict.update: the keys of u take u's values, the others keep d's
DictUpdate(d, u) ==
    [k \in (DOMAIN d) \cup (DOMAIN u) |-> IF k \in DOMAIN u THEN u[k] ELSE d[k]]

\* default_config of load_config
DefaultConfig ==
    [ollama |-> [model |-> "translategemma:4b",
                 base_url |-> "http://localhost:11434",
                 batch_size |-> 50,
                 keep_alive |-> "10m"],
     output |-> [directory |-> "None"]]

\* load_config(): default_config, with the sections 'ollama' and 'output' of the
\* file merged into it when the file exists and has them
LoadConfigResult(exists, file) ==
    IF exists
    THEN [ollama |-> IF file.ollama.isNone THEN DefaultConfig.ollama
                     ELSE DictUpdate(DefaultConfig.ollama, file.ollama.val),
          output |-> IF file.output.isNone THEN DefaultConfig.output
                     ELSE DictUpdate(DefaultConfig.output, file.output.val)]
    ELSE DefaultConfig

\* the characters of invalid_chars = r'[/\\:*?"<>|]'
InvalidChars == {"/", "\\", ":", "*", "?", "\"", "<", ">", "|"}

\* re.sub(invalid_chars, '_', title)
SubInvalid(s) == [i \in 1..Len(s) |-> IF s[i] \in InvalidChars THEN "_" ELSE s[i]]

\* str.strip('_')
RECURSIVE StripUnderscores(_)
StripUnderscores(s) ==
    IF s # <<>> /\ Head(s) = "_" THEN StripUnderscores(Tail(s))
    ELSE IF s # <<>> /\ s[Len(s)] = "_" THEN StripUnderscores(SubSeq(s, 1, Len(s) - 1))
    ELSE s

\* VideoDownloader.sanitize_filename(title, max_length)
SanitizeFilename(t, maxlen) ==
    LET replaced == SubInvalid(t)
        trimmed == StripUnderscores(Strip(replaced))
        cut == IF Len(trimmed) > maxlen THEN Strip(SubSeq(trimmed, 1, maxlen)) ELSE trimmed
    IN  IF cut = <<>> THEN <<"v", "i", "d", "e", "o">> ELSE cut

ConfigIdle ==
    /\ cfg_exists = FALSE /\ cfg_file = [ollama |-> None, output |-> None]
    /\ cfg_result = DefaultConfig /\ cfg_pc = "off"
PromptIdle ==
    /\ bp_texts = <<>> /\ bp_translategemma = FALSE
    /\ bp_prompt = BuildBatchPrompt(<<>>, FALSE) /\ bp_pc = "off"
LanguageIdle ==
    /\ lang_codes = <<>> /\ lang_names = <<>>
    /\ lang_input = <<>> /\ lang_result = None /\ lang_pc = "off"
ConstructIdle ==
    /\ init_batch_size = PyNone /\ init_config = Absent /\ self_batch_size = PyNone
    /\ ts_total = 0 /\ ts_batch_starts = <<>> /\ ts_returned = 0
    /\ ts_outcome = "pending" /\ init_pc = "off"

WorkflowIdle ==
    /\ wf_yes = FALSE /\ wf_language_name = None /\ wf_source_lang = <<>>
    /\ wf_target_lang = <<>> /\ wf_want_bilingual = FALSE /\ wf_connected = "unknown"
    /\ wf_events = <<>> /\ wf_result = "pending" /\ wf_pc = "off"
SanitizeIdle == title = <<>> /\ max_length = 200 /\ sanitized = <<>> /\ sanitize_pc = "off"
LbIdle == text = <<>> /\ preserved = <<>> /\ restored = <<>> /\ lb_pc = "off"
ParseIdle == response = <<>> /\ expected_count = 0 /\ parsed = None /\ parse_pc = "off"
EngineIdle ==
    /\ segments = <<>> /\ batch_size = 1 /\ has_callback = FALSE /\ pc = "off"
    /\ batch_start = 0 /\ translated_segments = <<>> /\ stack = <<>> /\ ret = None
    /\ progress_calls = <<>> /\ requests = <<>> /\ last = NoInteraction /\ exc = "none"

Init == EngineInit /\ LbIdle /\ ParseIdle /\ ClientIdle /\ ConfigIdle /\ SanitizeIdle /\ PromptIdle /\ LanguageIdle /\ WorkflowIdle /\ ConstructIdle

Next ==
    \/ TranslateSegmentsEnter
    \/ NextBatch
    \/ TryBatch
    \/ TranslateSingle
    \/ SplitRight
    \/ SplitJoin
    \/ ExtendResult

\* one call of translate_segments against a service that may do anything
Spec == Init /\ [][Next]_vars

\* the call runs on: a step that can be taken is taken, and every call of the
\* service returns or raises
FairSpec == Spec /\ WF_vars(Next)

----------------------------------------------------------------------------
(* The line-break round trip on its own *)

LbAlphabet == {" ", "|", NL, "a"}

LbInit ==
    /\ \E n \in 0..MaxTextLen : text \in [1..n -> LbAlphabet]
    /\ preserved = <<>>
    /\ restored = <<>>
    /\ lb_pc = "text"
    /\ EngineIdle /\ ParseIdle /\ ClientIdle /\ ConfigIdle /\ SanitizeIdle /\ PromptIdle /\ LanguageIdle /\ WorkflowIdle /\ ConstructIdle

\* preserved = self._preserve_linebreaks(text)
Preserve ==
    /\ lb_pc = "text"
    /\ preserved' = PreserveLinebreaks(text)
    /\ lb_pc' = "preserved"
    /\ UNCHANGED <<text, restored>>
    /\ UNCHANGED nonLbVars

\* restored = self._restore_linebreaks(preserved)
Restore ==
    /\ lb_pc = "preserved"
    /\ restored' = RestoreLinebreaks(preserved)
    /\ lb_pc' = "restored"
    /\ UNCHANGED <<text, preserved>>
    /\ UNCHANGED nonLbVars

LbNext == Preserve \/ Restore

SpecLinebreaks == LbInit /\ [][LbNext]_vars

----------------------------------------------------------------------------
(* The parser on its own *)

\* lines a response is made of: numbered lines with and without padding, a
\* repeated number, numbers outside 1..N, a number without content, a line
\* without a number, a blank line
ParserLines ==
    { <<"1", ".", " ", "a">>,
      <<"2", ".", " ", "b">>,
      <<"3", ".", " ", "c">>,
      <<"1", ".", "x">>,
      <<" ", "2", ".", " ", " ", "y", " ">>,
      <<"0", "3", ".", "z", " ", "w">>,
      <<"0", ".", " ", "n">>,
      <<"1", "2", ".", " ", "m">>,
      <<"2", ".">>,
      <<"h", "i">>,
      <<>> }

ParseInit ==
    /\ \E n \in 0..MaxLines : \E lines \in [1..n -> ParserLines] : response = JoinLines(lines)
    /\ expected_count \in 0..MaxExpected
    /\ parsed = None
    /\ parse_pc = "response"
    /\ EngineIdle /\ LbIdle /\ ClientIdle /\ ConfigIdle /\ SanitizeIdle /\ PromptIdle /\ LanguageIdle /\ WorkflowIdle /\ ConstructIdle

\* parsed = self._parse_batch_response(response, expected_count)
Parse ==
    /\ parse_pc = "response"
    /\ parsed' = ParseBatchResponse(response, expected_count)
    /\ parse_pc' = "parsed"
    /\ UNCHANGED <<response, expected_count>>
    /\ UNCHANGED nonParseVars

ParseNext == Parse

SpecParse == ParseInit /\ [][ParseNext]_vars

----------------------------------------------------------------------------
(* Properties of the parser, under SpecParse *)

\* the lines of the response as the parser sees them
ResponseLines == SplitLines(Strip(response))

\* the indices of the lines of the response that are numbered i
LinesNumbered(i) ==
    { k \in 1..Len(ResponseLines) :
        LET m == MatchPattern(Strip(ResponseLines[k]))
        IN  m.matched /\ StrToInt(m.group1) = i }

\* the content of line k of the response, a numbered line
ContentOf(k) == Strip(MatchPattern(Strip(ResponseLines[k])).group2)

\* C5: when some integer of 1..N has no numbered line in the response, the
\* parser returns None; and what it returns otherwise is never shorter than N
\* and has no entry that stands in for a missing line.
ParserStrictness ==
    parse_pc = "parsed" =>
        /\ (\E i \in 1..expected_count : LinesNumbered(i) = {}) => parsed = None
        /\ ~parsed.isNone =>
              /\ Len(parsed.val) = expected_count
              /\ \A i \in 1..expected_count : LinesNumbered(i) # {}

\* a response with line 1 but without line 2, for N >= 2, was parsed
ParserStrictnessWitness ==
    /\ parse_pc = "parsed"
    /\ expected_count >= 2
    /\ LinesNumbered(1) # {}
    /\ LinesNumbered(2) = {}
    /\ parsed = None

\* C6: when every integer of 1..N numbers a line of the response, the parser
\* returns N texts, the i-th being the content of a line numbered i (of the
\* line numbered i when there is one only), wherever that line stands.
ParserIndexOrder ==
    (parse_pc = "parsed" /\ \A i \in 1..expected_count : LinesNumbered(i) # {}) =>
        /\ ~parsed.isNone
        /\ Len(parsed.val) = expected_count
        /\ \A i \in 1..expected_count :
              parsed.val[i] \in { ContentOf(k) : k \in LinesNumbered(i) }

\* three lines, each number once, line 2 before line 1, were parsed
ParserIndexOrderWitness ==
    /\ parse_pc = "parsed"
    /\ expected_count = 3
    /\ \A i \in 1..3 : Cardinality(LinesNumbered(i)) = 1
    /\ \E k1 \in LinesNumbered(1), k2 \in LinesNumbered(2) : k2 < k1
    /\ ~parsed.isNone
    /\ Len(parsed.val) = 3

----------------------------------------------------------------------------
(* Properties of the line-break encoding, under SpecLinebreaks *)

\* C7 as stated: a text with newlines and without the delimiter comes back
\* from _restore_linebreaks(_preserve_linebreaks(text)) unchanged.
RoundTrip ==
    (lb_pc = "restored" /\ Contains(text, <<NL>>) /\ ~Contains(text, LINE_DELIMITER)) =>
        restored = text

\* " ||" right before a newline: with the delimiter's leading space it reads
\* as a delimiter that starts three characters early
DelimiterHeadBeforeNewline == Contains(text, <<" ", "|", "|", NL>>)

\* C7, amended: a text with newlines, without the delimiter and without " ||"
\* right before a newline comes back from the round trip unchanged.
RoundTripAmended ==
    (/\ lb_pc = "restored"
     /\ Contains(text, <<NL>>)
     /\ ~Contains(text, LINE_DELIMITER)
     /\ ~DelimiterHeadBeforeNewline) =>
        restored = text

\* a text with two newlines and a bar went through the round trip
RoundTripWitness ==
    /\ lb_pc = "restored"
    /\ Cardinality({i \in 1..Len(text) : text[i] = NL}) = 2
    /\ Contains(text, <<"|">>)
    /\ ~Contains(text, LINE_DELIMITER)
    /\ ~DelimiterHeadBeforeNewline
    /\ preserved # text
    /\ restored = text

----------------------------------------------------------------------------
(* Properties of translate_segments, under Spec *)

\* the call of translate_segments has ended, by a return or by an exception
Ended == pc \in {"done", "raised"}

SameTimes(out, in) ==
    /\ Len(out) = Len(in)
    /\ \A i \in 1..Len(in) : out[i].start = in[i].start /\ out[i].end = in[i].end

\* C1: whatever the service does, translate_segments returns as many segments
\* as it was given, in the same order, with the same start and end.
LengthOrderTimestamps ==
    Ended => (pc = "done" /\ SameTimes(translated_segments, segments))

\* C2: when the single-segment request of the base case fails, the base case
\* does not raise and returns the one segment unchanged.
LeafFailureKeepsOriginal ==
    (last.op = "single" /\ last.outcome \in ServiceFailures) =>
        /\ last.raised = "none"
        /\ last.returned = Some(<<last.segs[1]>>)

\* C3: a failure of the service during a batch attempt makes
\* _try_translate_batch return None, not raise, and the algorithm goes on.
BatchFailureReturnsNone ==
    (last.op = "batch" /\ last.outcome \in ServiceFailures) =>
        /\ last.raised = "none"
        /\ last.returned = None
        /\ pc = "call"

\* C4: no failure of a service call reaches the caller of translate_segments
\* as an exception; the call returns a list with an entry for every segment.
NoFailurePropagates ==
    /\ exc = "none"
    /\ pc # "raised"
    /\ pc = "done" => Len(translated_segments) = Len(segments)

\* C8: the callback receives non-decreasing current values, total = N each
\* time, and when the call has ended the last pair it received, if any, is (N, N).
ProgressMonotonic ==
    /\ \A k \in 1..Len(progress_calls) : progress_calls[k][2] = Len(segments)
    /\ \A k \in 1..(Len(progress_calls) - 1) :
          progress_calls[k][1] <= progress_calls[k + 1][1]
    /\ (Ended /\ progress_calls # <<>>) =>
          progress_calls[Len(progress_calls)] = <<Len(segments), Len(segments)>>

\* every request so far was a batch request answered with a well-formed response
AllWellFormed ==
    \A k \in 1..Len(requests) :
        requests[k].op = "batch" /\ requests[k].answer = "wellformed"

Ceil(n, b) == (n + b - 1) \div b

\* C9: when every batch attempt is answered with a well-formed response, a
\* call on N segments with batch size b that has returned issued ceil(N / b)
\* requests, the k-th for the k-th partition; none, returning [], when N = 0.
OneRequestPerPartition ==
    (pc = "done" /\ AllWellFormed) =>
        /\ Len(requests) = Ceil(Len(segments), batch_size)
        /\ \A k \in 1..Len(requests) :
              /\ requests[k].offset = (k - 1) * batch_size
              /\ requests[k].texts =
                    [i \in 1..Min(batch_size, Len(segments) - (k - 1) * batch_size) |->
                        segments[(k - 1) * batch_size + i].text]
        /\ (Len(segments) <= batch_size /\ segments # <<>>) => Len(requests) = 1
        /\ segments = <<>> => (requests = <<>> /\ translated_segments = <<>>)

\* three segments in batches of two were translated with two requests
OneRequestPerPartitionWitness ==
    /\ pc = "done"
    /\ AllWellFormed
    /\ Len(segments) = 3
    /\ batch_size = 2
    /\ Len(requests) = 2
    /\ Len(translated_segments) = 3

\* C10: a batch attempt on one segment that fails validation is followed by
\* one single-segment request with that segment's text, and when that request
\* is answered the base case returns one segment with the translated text and
\* the segment's start and end.
SingleSegmentFallback ==
    /\ (last.op = "single" /\ last.outcome = "ok") =>
          /\ Len(last.segs) = 1
          /\ last.returned = Some(<<[start |-> last.segs[1].start,
                                     end |-> last.segs[1].end,
                                     text |-> last.value.val]>>)
    /\ \A k \in 1..Len(requests) :
          (requests[k].op = "batch" /\ Len(requests[k].texts) = 1
             /\ requests[k].answer = "malformed") =>
              IF k = Len(requests)
              THEN pc = "call" /\ Top.at = "single" /\ Top.segs[1].text = requests[k].texts[1]
              ELSE /\ requests[k + 1].op = "single"
                   /\ requests[k + 1].offset = requests[k].offset
                   /\ requests[k + 1].texts = requests[k].texts
    /\ \A k \in 1..Len(requests) :
          requests[k].op = "single" =>
              /\ k > 1
              /\ requests[k - 1].op = "batch"
              /\ requests[k - 1].answer = "malformed"
              /\ requests[k - 1].texts = requests[k].texts
              /\ requests[k - 1].offset = requests[k].offset
              /\ \A j \in 1..Len(requests) :
                    (requests[j].op = "single" /\ requests[j].offset = requests[k].offset)
                        => j = k

\* the base case translated the two-line text of a segment that is not the first
SingleSegmentFallbackWitness ==
    /\ last.op = "single"
    /\ last.outcome = "ok"
    /\ last.offset > 0
    /\ Contains(last.segs[1].text, <<NL>>)
    /\ last.returned = Some(<<[last.segs[1] EXCEPT !.text = <<"S", NL, "S">>]>>)

----------------------------------------------------------------------------
(* translate_text and check_connection on their own *)

\* texts given to translate_text: those of the segments, the empty text, a
\* text with the delimiter in it
ClientTexts == SegmentTexts \cup { <<>>, <<"a">> \o LINE_DELIMITER \o <<"b">> }

\* what requests.post may do on the request of translate_text
TextOutcomes ==
    SingleOutcomes \cup { HttpFailure(payload) : payload \in ErrorPayloads }

\* statuses the probe may be answered with
ProbeStatuses == {200, 201, 204, 301, 404, 500, 503}

ProbeOutcomes ==
    { Probe(st) : st \in ProbeStatuses } \cup { ProbeFailure(k) : k \in ServiceFailures \ {"http"} }

\* sizes of the attempts _try_translate_batch is called on by itself: below
\* and above the size from which len(segments) * 5 exceeds 120
LargeAttempts == {24, 25}

\* lists of segments given to _try_translate_batch
AttemptSegments ==
    (UNION { { [i \in 1..n |-> MakeSegment(i, texts[i])] : texts \in [1..n -> SegmentTexts] } :
                n \in 1..2 })
      \cup { [i \in 1..n |-> MakeSegment(i, <<"a">>)] : n \in LargeAttempts }

\* values of self.batch_size
ConfiguredBatchSizes == {2, 25, 50}

\* the method of the translator that is called
ClientMethods == {"translate_text", "_try_translate_batch", "check_connection"}

ClientInit ==
    /\ \E method \in ClientMethods :
          /\ tt_pc = IF method = "translate_text" THEN "ready" ELSE "off"
          /\ tb_pc = IF method = "_try_translate_batch" THEN "ready" ELSE "off"
          /\ cc_pc = IF method = "check_connection" THEN "ready" ELSE "off"
    /\ tt_text \in IF tt_pc = "ready" THEN ClientTexts ELSE {<<>>}
    /\ tt_posts = 0
    /\ tt_outcome = Failure("other")
    /\ tt_result = CallOllama(Failure("other"))
    /\ tt_timeout = 0
    /\ tb_segs \in IF tb_pc = "ready" THEN AttemptSegments ELSE {<<>>}
    /\ tb_batch_size \in IF tb_pc = "ready"
                          THEN { b \in ConfiguredBatchSizes : Len(tb_segs) <= b } ELSE {1}
    /\ tb_outcome = Failure("other")
    /\ tb_result = TryTranslateBatch(<<>>, Failure("other"))
    /\ tb_timeout = 0
    /\ cc_probe = ProbeFailure("other")
    /\ cc_result = FALSE
    /\ EngineIdle /\ LbIdle /\ ParseIdle /\ ConfigIdle /\ SanitizeIdle /\ PromptIdle /\ LanguageIdle /\ WorkflowIdle /\ ConstructIdle

\* one call of translate_text(tt_text, source_lang, target_lang)
TranslateTextCall ==
    /\ tt_pc = "ready"
    /\ \E o \in TextOutcomes :
          LET result == TranslateText(tt_text, o)
          IN  /\ tt_posts' = tt_posts + 1
              /\ tt_outcome' = o
              /\ tt_result' = result
              /\ tt_pc' = IF result.raised = "none" THEN "returned" ELSE "raised"
    /\ tt_timeout' = SingleTimeout
    /\ UNCHANGED <<tt_text, cc_pc, cc_probe, cc_result>>
    /\ UNCHANGED <<tb_segs, tb_batch_size, tb_pc, tb_outcome, tb_result, tb_timeout>>
    /\ UNCHANGED nonClientVars

\* one call of _try_translate_batch(tb_segs, source_lang, target_lang)
TryTranslateBatchCall ==
    /\ tb_pc = "ready"
    /\ \E o \in BatchOutcomes(Len(tb_segs)) :
          LET result == TryTranslateBatch(tb_segs, o)
          IN  /\ tb_outcome' = o
              /\ tb_result' = result
              /\ tb_pc' = IF result.raised = "none" THEN "returned" ELSE "raised"
    /\ tb_timeout' = BatchTimeout(tb_segs)
    /\ UNCHANGED <<tb_segs, tb_batch_size>>
    /\ UNCHANGED <<tt_text, tt_pc, tt_posts, tt_outcome, tt_result, tt_timeout>>
    /\ UNCHANGED <<cc_pc, cc_probe, cc_result>>
    /\ UNCHANGED nonClientVars

\* one call of check_connection()
CheckConnection ==
    /\ cc_pc = "ready"
    /\ \E p \in ProbeOutcomes :
          LET result == CheckConnectionResult(p)
          IN  /\ cc_probe' = p
              /\ cc_result' = result.value
              /\ cc_pc' = IF result.raised = "none" THEN "returned" ELSE "raised"
    /\ UNCHANGED <<tt_text, tt_pc, tt_posts, tt_outcome, tt_result, tt_timeout>>
    /\ UNCHANGED <<tb_segs, tb_batch_size, tb_pc, tb_outcome, tb_result, tb_timeout>>
    /\ UNCHANGED nonClientVars

ClientNext == TranslateTextCall \/ TryTranslateBatchCall \/ CheckConnection

SpecClient == ClientInit /\ [][ClientNext]_vars

----------------------------------------------------------------------------
(* Properties of translate_text and check_connection, under SpecClient *)

Mentions(message, piece) == \E i \in 1..Len(message) : message[i] = piece

IsConnectionFailure(o) == o.kind # "ok" /\ "ConnectionError" \in ExceptionBases(o.kind)
IsTimeout(o) == o.kind # "ok" /\ "Timeout" \in ExceptionBases(o.kind)
IsHttpError(o) == o.kind # "ok" /\ "HTTPError" \in ExceptionBases(o.kind)

\* C11 as stated: translate_text makes one request, and a connection failure
\* raises ConnectionError with 'Cannot connect to Ollama', a timeout raises
\* RuntimeError mentioning 'timed out', a non-2xx response raises RuntimeError
\* with the service's error message when the response carries one.
TranslateTextErrors ==
    tt_pc \in {"returned", "raised"} =>
        /\ tt_posts = 1
        /\ IsConnectionFailure(tt_outcome) =>
              /\ tt_result.raised = "ConnectionError"
              /\ Mentions(tt_result.message, "Cannot connect to Ollama")
        /\ IsTimeout(tt_outcome) =>
              /\ tt_result.raised = "RuntimeError"
              /\ Mentions(tt_result.message, "timed out")
        /\ IsHttpError(tt_outcome) =>
              /\ tt_result.raised = "RuntimeError"
              /\ tt_outcome.error = "json_error" => Mentions(tt_result.message, ServiceErrorText)

\* C11, amended: as stated, but a timeout while connecting, which is a
\* connection failure too, raises the ConnectionError of a connection failure;
\* the other timeouts raise RuntimeError mentioning 'timed out'.
TranslateTextErrorsAmended ==
    tt_pc \in {"returned", "raised"} =>
        /\ tt_posts = 1
        /\ IsConnectionFailure(tt_outcome) =>
              /\ tt_result.raised = "ConnectionError"
              /\ Mentions(tt_result.message, "Cannot connect to Ollama")
        /\ (IsTimeout(tt_outcome) /\ ~IsConnectionFailure(tt_outcome)) =>
              /\ tt_result.raised = "RuntimeError"
              /\ Mentions(tt_result.message, "timed out")
        /\ IsHttpError(tt_outcome) =>
              /\ tt_result.raised = "RuntimeError"
              /\ tt_outcome.error = "json_error" => Mentions(tt_result.message, ServiceErrorText)

\* translate_text ended on a timeout while connecting
TranslateTextErrorsWitness ==
    /\ tt_pc = "raised"
    /\ tt_posts = 1
    /\ tt_outcome.kind = "connect_timeout"
    /\ tt_result.raised = "ConnectionError"

\* C12: check_connection never raises; it returns True exactly when the probe
\* is answered with status 200, and False for any other status and any failure.
CheckConnectionTotal ==
    cc_pc \notin {"ready", "off"} =>
        /\ cc_pc = "returned"
        /\ cc_result = (cc_probe.kind = "ok" /\ cc_probe.status = 200)

\* check_connection returned False for an answer with a status other than 200
CheckConnectionWitness ==
    /\ cc_pc = "returned"
    /\ cc_probe.kind = "ok"
    /\ cc_probe.status = 204
    /\ cc_result = FALSE

----------------------------------------------------------------------------
(* Whitespace in the response, under SpecParse *)


\* a line without the whitespace at its two ends and after the period of its
\* number prefix
TightLine(line) ==
    LET t == RStrip(LStrip(line))
        d == DigitPrefixLen(t)
    IN  IF d >= 1 /\ Len(t) >= d + 1 /\ t[d + 1] = "."
        THEN SubSeq(t, 1, d + 1) \o LStrip(Drop(t, d + 2))
        ELSE t

RECURSIVE TightLines(_)
TightLines(lines) ==
    IF lines = <<>> THEN <<>>
    ELSE LET t == TightLine(Head(lines))
         IN  IF t = <<>> THEN TightLines(Tail(lines))
             ELSE <<t>> \o TightLines(Tail(lines))

\* the response without its blank lines and without the whitespace around the
\* number prefixes and the contents
WithoutExtraWhitespace(resp) == JoinLines(TightLines(SplitLines(resp)))

\* C13: blank lines and whitespace around the number prefix or the content do
\* not change the result of _parse_batch_response: it is the result for the
\* same response with that whitespace removed.
ParserWhitespaceTolerance ==
    parse_pc = "parsed" =>
        parsed = ParseBatchResponse(WithoutExtraWhitespace(response), expected_count)

\* a response with a blank line and a padded line was parsed into two texts
ParserWhitespaceWitness ==
    /\ parse_pc = "parsed"
    /\ response = JoinLines(<< <<"1", ".", "x">>, <<>>, <<" ", "2", ".", " ", " ", "y", " ">> >>)
    /\ WithoutExtraWhitespace(response) = JoinLines(<< <<"1", ".", "x">>, <<"2", ".", "y">> >>)
    /\ expected_count = 2
    /\ parsed = Some(<< <<"x">>, <<"y">> >>)

----------------------------------------------------------------------------
(* load_config *)

OllamaKeys == {"model", "base_url", "batch_size", "keep_alive"}

\* the i-th value a config file may give to a key
FileValue(k, i) ==
    CASE k = "model" -> IF i = 1 THEN "llama3:8b" ELSE "qwen2.5:7b"
      [] k = "base_url" -> IF i = 1 THEN "http://gpu:11434" ELSE "http://localhost:11434"
      [] k = "batch_size" -> IF i = 1 THEN 25 ELSE 100
      [] k = "keep_alive" -> IF i = 1 THEN "1h" ELSE "-1"

\* the 'ollama' sections of a file: each key absent (0) or set to one of its values
OllamaSections ==
    { [k \in {key \in OllamaKeys : choice[key] # 0} |-> FileValue(k, choice[k])] :
          choice \in [OllamaKeys -> 0..2] }

OutputSections == { [directory |-> "subs"] }

ConfigFiles ==
    [ollama : {None} \cup { Some(sec) : sec \in OllamaSections },
     output : {None} \cup { Some(sec) : sec \in OutputSections }]

ConfigInit ==
    /\ cfg_exists \in BOOLEAN
    /\ cfg_file \in ConfigFiles
    /\ ~cfg_exists => cfg_file = [ollama |-> None, output |-> None]
    /\ cfg_result = DefaultConfig
    /\ cfg_pc = "ready"
    /\ EngineIdle /\ LbIdle /\ ParseIdle /\ ClientIdle /\ SanitizeIdle /\ PromptIdle /\ LanguageIdle /\ WorkflowIdle /\ ConstructIdle

\* config = load_config()
LoadConfig ==
    /\ cfg_pc = "ready"
    /\ cfg_result' = LoadConfigResult(cfg_exists, cfg_file)
    /\ cfg_pc' = "returned"
    /\ UNCHANGED <<cfg_exists, cfg_file>>
    /\ UNCHANGED nonConfigVars

ConfigNext == LoadConfig

SpecConfig == ConfigInit /\ [][ConfigNext]_vars

\* whether the file gives a value to key k of the ollama section
FileProvides(k) == cfg_exists /\ ~cfg_file.ollama.isNone /\ k \in DOMAIN cfg_file.ollama.val

DocumentedDefaults ==
    [model |-> "qwen2.5:7b",
     base_url |-> "http://localhost:11434",
     batch_size |-> 50,
     keep_alive |-> "10m"]

\* C14: load_config returns, for each key of the ollama section, the file's
\* value when the file provides the key and otherwise the documented default
\* (model 'qwen2.5:7b', base_url 'http://localhost:11434', batch_size 50,
\* keep_alive '10m'); with no file all defaults are returned.
LoadConfigDefaults ==
    cfg_pc = "returned" =>
        \A k \in OllamaKeys :
            /\ k \in DOMAIN cfg_result.ollama
            /\ cfg_result.ollama[k] =
                  IF FileProvides(k) THEN cfg_file.ollama.val[k] ELSE DocumentedDefaults[k]

----------------------------------------------------------------------------
(* VideoDownloader.sanitize_filename *)

TitleAlphabet == {"a", " ", "_", "/"}

\* 'Video: Test / Example'
ExampleTitle ==
    <<"V", "i", "d", "e", "o", ":", " ", "T", "e", "s", "t", " ", "/", " ",
      "E", "x", "a", "m", "p", "l", "e">>

Titles ==
    (UNION { [1..n -> TitleAlphabet] : n \in 0..MaxTitleLen }) \cup {ExampleTitle}

MaxLengths == {3, 10, 200}

SanitizeInit ==
    /\ title \in Titles
    /\ max_length \in MaxLengths
    /\ sanitized = <<>>
    /\ sanitize_pc = "ready"
    /\ EngineIdle /\ LbIdle /\ ParseIdle /\ ClientIdle /\ ConfigIdle /\ PromptIdle /\ LanguageIdle /\ WorkflowIdle /\ ConstructIdle

\* sanitized = VideoDownloader.sanitize_filename(title, max_length)
Sanitize ==
    /\ sanitize_pc = "ready"
    /\ sanitized' = SanitizeFilename(title, max_length)
    /\ sanitize_pc' = "returned"
    /\ UNCHANGED <<title, max_length>>
    /\ UNCHANGED nonSanitizeVars

SanitizeNext == Sanitize

SpecSanitize == SanitizeInit /\ [][SanitizeNext]_vars

\* 'Video__Test___Example'
ExampleSanitized ==
    <<"V", "i", "d", "e", "o", "_", "_", "T", "e", "s", "t", "_", "_", "_",
      "E", "x", "a", "m", "p", "l", "e">>

\* C15: sanitize_filename replaces every invalid character and every space
\* with an underscore, so that 'Video: Test / Example' becomes
\* 'Video__Test___Example', and the result is never longer than max_length.
SanitizeReplacesInvalidAndSpaces ==
    sanitize_pc = "returned" =>
        /\ \A i \in 1..Len(sanitized) : sanitized[i] \notin InvalidChars \cup {SP}
        /\ (title = ExampleTitle /\ max_length >= Len(ExampleTitle)) => sanitized = ExampleSanitized
        /\ Len(sanitized) <= max_length

----------------------------------------------------------------------------
(* Order of the recursion, under Spec *)

\* whether request r is about segments of the range [lo, hi) of the input
InRange(r, lo, hi) == lo <= r.offset /\ r.offset < hi

\* the segments the call that just returned was given
ReturnedFor ==
    IF stack = <<>>
    THEN SubSeq(segments, batch_start + 1, Min(batch_start + batch_size, Len(segments)))
    ELSE IF Top.at = "left"
    THEN SubSeq(Top.segs, 1, Len(Top.segs) \div 2)
    ELSE SubSeq(Top.segs, Len(Top.segs) \div 2 + 1, Len(Top.segs))

\* C16: after a batch attempt on n >= 2 segments failed validation, the next
\* request is the attempt on segments[0 : n//2], the first request about the
\* right half is the attempt on segments[n//2 : n], every request about the
\* left half precedes every request about the right half, and a call returns
\* the segments it was given in their order, the left result before the right.
SplitLeftThenRight ==
    /\ \A p \in 1..Len(requests) :
          LET r == requests[p]
              n == Len(r.texts)
              mid == n \div 2
              lefts == { q \in (p + 1)..Len(requests) :
                            InRange(requests[q], r.offset, r.offset + mid) }
              rights == { q \in (p + 1)..Len(requests) :
                            InRange(requests[q], r.offset + mid, r.offset + n) }
          IN  (r.op = "batch" /\ r.answer = "malformed" /\ n >= 2) =>
                 /\ p < Len(requests) =>
                       /\ requests[p + 1].op = "batch"
                       /\ requests[p + 1].offset = r.offset
                       /\ requests[p + 1].texts = SubSeq(r.texts, 1, mid)
                 /\ \A q1 \in lefts : \A q2 \in rights : q1 < q2
                 /\ \A q2 \in rights :
                       (\A q \in rights : q2 <= q) =>
                          /\ requests[q2].op = "batch"
                          /\ requests[q2].offset = r.offset + mid
                          /\ requests[q2].texts = SubSeq(r.texts, mid + 1, n)
    /\ (pc = "call" /\ ~ret.isNone) => SameTimes(ret.val, ReturnedFor)

\* a batch of three was split, its right half was split again, and the call
\* on the batch returned the three segments
SplitLeftThenRightWitness ==
    /\ pc = "call"
    /\ stack = <<>>
    /\ ~ret.isNone
    /\ Len(ret.val) = 3
    /\ Len(requests) = 5
    /\ requests[1].answer = "malformed"
    /\ requests[3].answer = "malformed"
    /\ requests[3].offset = 1
    /\ requests[5].offset = 2

----------------------------------------------------------------------------
(* Alignment of the output with the input, under Spec *)

\* the texts an accepted response gives for its line numbered k
AcceptedTexts(k) == { RestoreLinebreaks(PlainContent(k)), RestoreLinebreaks(DelimContent(k)) }

\* the texts translate_text may return for text t
SingleTexts(t) == { TranslateText(t, Ok(b)).value : b \in SingleBodies }

\* whether out is what position i (from 1) of the output may hold
DerivedFrom(out, i) ==
    \/ \E p \in 1..Len(requests) :
          LET r == requests[p]
              k == i - r.offset
          IN  /\ r.op = "batch"
              /\ r.answer = "wellformed"
              /\ k \in 1..Len(r.texts)
              /\ r.texts[k] = segments[i].text
              /\ out.text \in AcceptedTexts(k)
    \/ \E p \in 1..Len(requests) :
          LET r == requests[p]
          IN  /\ r.op = "single"
              /\ r.answer = "ok"
              /\ r.offset = i - 1
              /\ r.texts = <<segments[i].text>>
              /\ out.text \in SingleTexts(segments[i].text)
    \/ out.text = segments[i].text

\* C17: whatever attempts fail validation, the text at position i of the
\* output comes from input[i]: from the line numbered (i - s + 1) of the
\* accepted attempt on the range starting at s, or from the single-segment
\* request for input[i].text, or it is input[i].text; it carries input[i]'s
\* start and end.
OutputAligned ==
    /\ Len(translated_segments) <= Len(segments)
    /\ \A i \in 1..Len(translated_segments) :
          /\ DerivedFrom(translated_segments[i], i)
          /\ translated_segments[i].start = segments[i].start
          /\ translated_segments[i].end = segments[i].end

\* three segments in one batch that was split: the first came from its
\* single-segment request, the other two from the accepted attempt on the
\* right half
OutputAlignedWitness ==
    /\ pc = "done"
    /\ Len(segments) = 3
    /\ batch_size = 3
    /\ Len(requests) = 4
    /\ requests[1].answer = "malformed"
    /\ requests[2].answer = "malformed"
    /\ requests[3].op = "single"
    /\ requests[4].answer = "wellformed"
    /\ requests[4].offset = 1
    /\ translated_segments[3].text \in AcceptedTexts(2)

----------------------------------------------------------------------------
(* The partitions of translate_segments, under Spec *)

\* C19: for every batch size b >= 1 and every N, the calls of the recursive
\* algorithm made by translate_segments are on the partitions [0,b), [b,2b),
\* ... in increasing order, each of at most b segments, each with
\* progress_offset equal to its start; the partitions before the current one
\* are in the output, and the output of a call that returned has length N.
ContiguousPartitions ==
    /\ batch_start % batch_size = 0
    /\ (pc = "call" /\ stack # <<>>) =>
          /\ batch_start < Len(segments)
          /\ stack[1].segs =
                SubSeq(segments, batch_start + 1, Min(batch_start + batch_size, Len(segments)))
          /\ Len(stack[1].segs) \in 1..batch_size
          /\ stack[1].progress_offset = batch_start
    /\ pc \in {"loop", "call"} => Len(translated_segments) = Min(batch_start, Len(segments))
    /\ pc = "done" => Len(translated_segments) = Len(segments)
    /\ \A p \in 1..Len(requests) : \A q \in 1..Len(requests) :
          (p < q /\ requests[q].offset % batch_size = 0
             /\ Len(requests[q].texts) = Min(batch_size, Len(segments) - requests[q].offset))
              => requests[p].offset <= requests[q].offset

\* the third segment alone is the second partition of three segments in
\* batches of two, and the recursive algorithm is at work on it
ContiguousPartitionsWitness ==
    /\ pc = "call"
    /\ Len(segments) = 3
    /\ batch_size = 2
    /\ batch_start = 2
    /\ Len(stack) = 1
    /\ stack[1].progress_offset = 2
    /\ stack[1].segs = <<segments[3]>>
    /\ Len(translated_segments) = 2

----------------------------------------------------------------------------
(* Progress reports, under Spec *)

\* the results of the left halves that wait for their right halves, outermost first
RECURSIVE WaitingLefts(_)
WaitingLefts(st) ==
    IF st = <<>> THEN <<>>
    ELSE (IF Head(st).at = "right" THEN Head(st).left ELSE <<>>) \o WaitingLefts(Tail(st))

\* the output segments that exist so far, in the order of the input: those of
\* the partitions that are done, those of the left halves that returned, those
\* of the call that just returned
Resolved ==
    translated_segments \o WaitingLefts(stack) \o (IF ret.isNone THEN <<>> ELSE ret.val)

IsPrefix(a, b) == Len(a) <= Len(b) /\ SubSeq(b, 1, Len(a)) = a

\* the reports so far are one for each accepted attempt and resolved leaf, with
\* strictly increasing counters, the last of which is the number of output
\* segments that exist
ReportsFollowResolution ==
    /\ \A k \in 1..(Len(progress_calls) - 1) :
          progress_calls[k][1] < progress_calls[k + 1][1]
    /\ Len(progress_calls) <= Len(segments)
    /\ \A k \in 1..Len(progress_calls) : progress_calls[k][1] \in 1..Len(segments)
    /\ (pc # "raised" /\ progress_calls # <<>>) =>
          /\ progress_calls[Len(progress_calls)][1] = Len(Resolved)
          /\ \A i \in 1..Len(Resolved) :
                /\ Resolved[i].start = segments[i].start
                /\ DerivedFrom(Resolved[i], i)
    /\ (pc # "raised" /\ has_callback) =>
          Len(progress_calls) =
             Cardinality({ p \in 1..Len(requests) :
                             requests[p].answer \in {"wellformed", "ok"} })
    /\ pc = "done" => translated_segments = Resolved

\* a step never changes an output segment that exists
ResolvedIsFinal == pc' # "raised" => IsPrefix(Resolved, Resolved')

\* C20: the callback is invoked only when an attempt was accepted or a leaf
\* was resolved: with (c, total) the segments below c have their output text
\* and keep it to the end of the call, the values c increase strictly and
\* there are at most N invocations.
ProgressAfterResolution == []ReportsFollowResolution /\ [][ResolvedIsFinal]_vars

\* three reports for three segments in one batch that was split twice
ProgressAfterResolutionWitness ==
    /\ pc = "done"
    /\ has_callback
    /\ Len(segments) = 3
    /\ batch_size = 3
    /\ progress_calls = << <<1, 3>>, <<2, 3>>, <<3, 3>> >>
    /\ Len(requests) >= 5

----------------------------------------------------------------------------
(* Termination and cost of the recursion, under FairSpec *)

\* ceil(log2 n) for n >= 1
RECURSIVE CeilLog2(_)
CeilLog2(n) == IF n <= 1 THEN 0 ELSE 1 + CeilLog2((n + 1) \div 2)

\* the start indices of the partitions, and the size of the partition at s
PartitionStarts == { s \in 0..(Len(segments) - 1) : s % batch_size = 0 }
PartitionSize(s) == Min(batch_size, Len(segments) - s)

\* the batch attempts and the single-segment requests made for the partition at s
BatchAttempts(s) ==
    { p \in 1..Len(requests) :
         requests[p].op = "batch" /\ InRange(requests[p], s, s + PartitionSize(s)) }
SingleRequests(s) ==
    { p \in 1..Len(requests) :
         requests[p].op = "single" /\ InRange(requests[p], s, s + PartitionSize(s)) }

\* the call on the partition at s has returned
PartitionReturned(s) ==
    \/ pc = "done"
    \/ pc \in {"loop", "call"} /\ batch_start > s
    \/ pc = "call" /\ batch_start = s /\ stack = <<>> /\ ~ret.isNone

\* every attempt on more than one segment failed validation and every attempt
\* on one segment was accepted
SplitsToLeaves(s) ==
    \A p \in BatchAttempts(s) :
        requests[p].answer = IF Len(requests[p].texts) > 1 THEN "malformed" ELSE "wellformed"

RecursionBounds ==
    /\ \A s \in PartitionStarts :
          LET n == PartitionSize(s)
          IN  /\ Cardinality(BatchAttempts(s)) <= 2 * n - 1
              /\ Cardinality(SingleRequests(s)) <= n
              /\ (PartitionReturned(s) /\ SplitsToLeaves(s)) =>
                    /\ Cardinality({ p \in BatchAttempts(s) : Len(requests[p].texts) = 1 }) = n
                    /\ Cardinality(BatchAttempts(s)) = 2 * n - 1
    /\ stack # <<>> => Len(stack) <= CeilLog2(Len(stack[1].segs)) + 1

\* C18: the recursion ends on every input when the service's calls return; a
\* partition of n segments whose attempts on more than one segment all fail
\* and whose attempts on one segment all succeed costs n size-1 attempts and
\* 2n - 1 batch attempts; any partition costs at most 2n - 1 batch attempts
\* and n single-segment requests, with at most ceil(log2 n) + 1 nested calls.
RecursionTerminates == []RecursionBounds /\ <>Ended

\* a partition of three segments was split down to its leaves with five batch
\* attempts, three calls deep
RecursionTerminatesWitness ==
    /\ pc = "done"
    /\ Len(segments) = 3
    /\ batch_size = 3
    /\ SplitsToLeaves(0)
    /\ Cardinality(BatchAttempts(0)) = 5
    /\ Cardinality({ p \in BatchAttempts(0) : Len(requests[p].texts) = 1 }) = 3

----------------------------------------------------------------------------
(* Delimiters in the responses, under SpecClient *)

\* whether t is r with its delimiters converted to newlines (r without newlines)
DelimitersConverted(t, r) == ~Contains(t, LINE_DELIMITER) /\ PreserveLinebreaks(t) = r

\* the texts _try_translate_batch returned are the contents of the response's
\* lines with the delimiters converted
BatchDelimitersConverted ==
    (tb_pc = "returned" /\ ~tb_result.value.isNone) =>
        LET contents == ParseBatchResponse(Strip(tb_outcome.body), Len(tb_segs)).val
        IN  \A i \in 1..Len(tb_segs) :
                DelimitersConverted(tb_result.value.val[i].text, contents[i])

\* C21 as stated: in the batch path and in the single-text path every
\* delimiter of the response is a newline in the returned text, whether or not
\* the source text had a newline.
DelimitersAlwaysRestored ==
    /\ BatchDelimitersConverted
    /\ tt_pc = "returned" => DelimitersConverted(tt_result.value, Strip(tt_outcome.body))

\* C21, amended: the batch path converts every delimiter; translate_text
\* converts them when the source text had a newline and returns the response
\* as it is, delimiters included, when the source text had none.
DelimitersRestored ==
    /\ BatchDelimitersConverted
    /\ tt_pc = "returned" =>
          IF Contains(tt_text, <<NL>>)
          THEN DelimitersConverted(tt_result.value, Strip(tt_outcome.body))
          ELSE tt_result.value = Strip(tt_outcome.body)

\* translate_text returned a delimiter for a source text of one line
DelimitersRestoredWitness ==
    /\ tt_pc = "returned"
    /\ ~Contains(tt_text, <<NL>>)
    /\ Contains(tt_outcome.body, LINE_DELIMITER)
    /\ Contains(tt_result.value, LINE_DELIMITER)

----------------------------------------------------------------------------
(* _build_batch_prompt *)

\* texts of one line, of two lines, of newlines only, and the empty text
PromptTexts == { <<"a">>, <<"b", NL, "c">>, <<NL, NL>>, <<>> }

PromptInit ==
    /\ \E k \in 0..MaxPromptTexts : bp_texts \in [1..k -> PromptTexts]
    /\ bp_translategemma \in BOOLEAN
    /\ bp_prompt = BuildBatchPrompt(<<>>, FALSE)
    /\ bp_pc = "ready"
    /\ EngineIdle /\ LbIdle /\ ParseIdle /\ ClientIdle /\ ConfigIdle /\ SanitizeIdle
    /\ LanguageIdle /\ WorkflowIdle /\ ConstructIdle

\* prompt = self._build_batch_prompt(texts, source_lang, target_lang)
BuildPrompt ==
    /\ bp_pc = "ready"
    /\ bp_prompt' = BuildBatchPrompt(bp_texts, bp_translategemma)
    /\ bp_pc' = "returned"
    /\ UNCHANGED <<bp_texts, bp_translategemma>>
    /\ UNCHANGED nonPromptVars

PromptNext == BuildPrompt

SpecPrompt == PromptInit /\ [][PromptNext]_vars

\* the lines of a block of text: none for the empty block
BlockLines(block) == IF block = <<>> THEN <<>> ELSE SplitLines(block)

\* t with each of its newlines turned into the delimiter, character by character
RECURSIVE Encoded(_)
Encoded(t) ==
    IF t = <<>> THEN <<>>
    ELSE (IF Head(t) = NL THEN LINE_DELIMITER ELSE <<Head(t)>>) \o Encoded(Tail(t))

\* C22: for any list of k texts, texts with newlines included, the numbered
\* block of the batch prompt has exactly k lines, the i-th being 'i. '
\* followed by the i-th text with its newlines encoded as the delimiter.
OneLinePerSegment ==
    bp_pc = "returned" =>
        LET lines == BlockLines(bp_prompt.numbered_lines)
        IN  /\ Len(lines) = Len(bp_texts)
            /\ \A i \in 1..Len(bp_texts) :
                  lines[i] = IntToStr(i) \o <<".", " ">> \o Encoded(bp_texts[i])

\* a prompt of three lines was built for three texts, the second of two lines
OneLinePerSegmentWitness ==
    /\ bp_pc = "returned"
    /\ Len(bp_texts) = 3
    /\ bp_texts[2] = <<"b", NL, "c">>
    /\ Len(BlockLines(bp_prompt.numbered_lines)) = 3
    /\ bp_prompt.delimiter_instruction

----------------------------------------------------------------------------
(* Timeouts of the requests, under SpecClient *)

Max(a, b) == IF a > b THEN a ELSE b

\* C23 as stated: a batch request has the timeout max(120, 5 x batch_size),
\* batch_size being the translator's configured batch size, and a
\* single-segment request the timeout 60.
TimeoutFromBatchSize ==
    /\ tb_pc \in {"returned", "raised"} => tb_timeout = Max(120, 5 * tb_batch_size)
    /\ tt_pc \in {"returned", "raised"} => tt_timeout = 60

\* C23, amended: a batch request has the timeout max(120, 5 x n), n being the
\* number of segments of the attempt, which is at most the configured batch
\* size; a single-segment request has the timeout 60.
TimeoutFromAttemptSize ==
    /\ tb_pc \in {"returned", "raised"} => tb_timeout = Max(120, 5 * Len(tb_segs))
    /\ tt_pc \in {"returned", "raised"} => tt_timeout = 60

\* an attempt on 25 segments by a translator with batch size 50 had 125 seconds
TimeoutFromAttemptSizeWitness ==
    /\ tb_pc = "returned"
    /\ Len(tb_segs) = 25
    /\ tb_batch_size = 50
    /\ tb_timeout = 125

----------------------------------------------------------------------------
(* parse_language *)

Upper(s) == [i \in 1..Len(s) |-> UpperChar(s[i])]

\* inputs of parse_language: every name and every code of the tables, as they
\* are, title-cased, and in upper case between spaces; and inputs that are in
\* neither table
LanguageInputs ==
    UNION { { LANGUAGE_CODES[i][k], Title(LANGUAGE_CODES[i][k]),
              <<SP>> \o Upper(LANGUAGE_CODES[i][k]) \o <<SP, NL>> } :
                i \in 1..Len(LANGUAGE_CODES), k \in 1..2 }
      \cup { <<>>, <<SP>>, <<"x", "x">>, <<"k", "l", "i", "n", "g", "o", "n">>,
             <<"z", " ", "h">>, <<"e", "n", "g">> }

LanguageInit ==
    /\ lang_codes = LANGUAGE_CODES
    /\ lang_names = LANGUAGE_NAMES
    /\ lang_input \in LanguageInputs
    /\ lang_result = None
    /\ lang_pc = "ready"
    /\ EngineIdle /\ LbIdle /\ ParseIdle /\ ClientIdle /\ ConfigIdle /\ SanitizeIdle
    /\ PromptIdle /\ WorkflowIdle /\ ConstructIdle

\* parsed = parse_language(language)
ParseLanguageCall ==
    /\ lang_pc = "ready"
    /\ lang_result' = ParseLanguage(lang_input, lang_codes, lang_names)
    /\ lang_pc' = "returned"
    /\ UNCHANGED <<lang_codes, lang_names, lang_input>>
    /\ UNCHANGED nonLanguageVars

LanguageNext == ParseLanguageCall

SpecLanguage == LanguageInit /\ [][LanguageNext]_vars

\* C26: parse_language lowercases and trims its input, looks it up in the name
\* table first and in the code table next, returns (title-cased name, code) on
\* a hit and None on a miss, and leaves the tables as they were.
ParseLanguageLookup ==
    /\ lang_codes = LANGUAGE_CODES
    /\ lang_names = LANGUAGE_NAMES
    /\ lang_pc = "returned" =>
          LET key == Strip(Lower(lang_input))
              asName == { i \in 1..Len(lang_codes) : lang_codes[i][1] = key }
              asCode == { i \in 1..Len(lang_names) : lang_names[i][1] = key }
          IN  IF asName # {}
              THEN \E i \in asName : lang_result = Some(<<Title(key), lang_codes[i][2]>>)
              ELSE IF asCode # {}
              THEN \E i \in asCode :
                      /\ lang_result = Some(<<lang_names[i][2], key>>)
                      /\ Title(Lower(lang_names[i][2])) = lang_names[i][2]
              ELSE lang_result = None

\* ' TRADITIONAL CHINESE ' with a newline after it was resolved by its name
ParseLanguageLookupWitness ==
    /\ lang_pc = "returned"
    /\ lang_input # Strip(lang_input)
    /\ lang_input # Lower(lang_input)
    /\ lang_result = Some(<< <<"T", "r", "a", "d", "i", "t", "i", "o", "n", "a", "l", " ",
                               "C", "h", "i", "n", "e", "s", "e">>, <<"z", "h">> >>)

\* C30: the tables agree: for every code c of LANGUAGE_NAMES with name n,
\* parse_language(c) and parse_language(n) both return (n, c); for every name
\* of LANGUAGE_CODES, aliases included, parse_language returns the name's own
\* code.
TablesConsistent ==
    lang_pc = "returned" =>
        /\ \A i \in 1..Len(lang_names) :
              LET c == lang_names[i][1]
                  n == lang_names[i][2]
              IN  lang_input = c =>
                     /\ lang_result = Some(<<n, c>>)
                     /\ ParseLanguage(n, lang_codes, lang_names) = Some(<<n, c>>)
        /\ \A i \in 1..Len(lang_codes) :
              lang_input = lang_codes[i][1] =>
                 /\ ~lang_result.isNone
                 /\ lang_result.val[2] = lang_codes[i][2]

\* the alias 'taiwanese' was resolved to its own code, whose first name is 'Chinese'
TablesConsistentWitness ==
    /\ lang_pc = "returned"
    /\ lang_input = <<"t", "a", "i", "w", "a", "n", "e", "s", "e">>
    /\ lang_result = Some(<< <<"T", "a", "i", "w", "a", "n", "e", "s", "e">>, <<"z", "h">> >>)
    /\ DictGet(lang_names, <<"z", "h">>) = <<"C", "h", "i", "n", "e", "s", "e">>
    /\ Len(lang_names) = 100
    /\ Len(lang_codes) = 102

----------------------------------------------------------------------------
(* translate_subtitles: the translation workflow of main.py *)

English == <<"E", "n", "g", "l", "i", "s", "h">>
Chinese == <<"C", "h", "i", "n", "e", "s", "e">>

\* values of --language after main resolved it, or None
LanguageNames == { None, Some(<<"J", "a", "p", "a", "n", "e", "s", "e">>) }

\* what the user may answer to the prompts for a language
PromptAnswers == { English, <<"k", "o">>, <<"k", "l", "i", "n", "g", "o", "n">> }

\* the canonical name of a recognized answer, the answer as it is otherwise
Canonical(answer) ==
    LET resolved == ParseLanguage(answer, lang_codes, lang_names)
    IN  IF resolved.isNone THEN answer ELSE resolved.val[1]

\* the warnings for the answers that parse_language does not recognize
Warnings(answers) ==
    LET unknown == SelectSeq(answers,
                             LAMBDA a : ParseLanguage(a, lang_codes, lang_names).isNone)
    IN  [i \in 1..Len(unknown) |-> "warn_not_recognized"]

\* what translate_segments may do, as translate_subtitles sees it
TranslationOutcomes == {"returned", "ConnectionError", "RuntimeError"}

WorkflowInit ==
    /\ wf_yes \in BOOLEAN
    /\ wf_language_name \in LanguageNames
    /\ wf_source_lang = <<>>
    /\ wf_target_lang = <<>>
    /\ wf_want_bilingual = FALSE
    /\ wf_connected = "unknown"
    /\ wf_events = <<>>
    /\ wf_result = "pending"
    /\ wf_pc = "start"
    /\ lang_codes = LANGUAGE_CODES /\ lang_names = LANGUAGE_NAMES
    /\ lang_input = <<>> /\ lang_result = None /\ lang_pc = "off"
    /\ EngineIdle /\ LbIdle /\ ParseIdle /\ ClientIdle /\ ConfigIdle /\ SanitizeIdle
    /\ PromptIdle /\ ConstructIdle

\* --yes: the defaults are taken without a prompt, then the model is shown
AskDefaults ==
    /\ wf_pc = "start"
    /\ wf_yes
    /\ wf_source_lang' = IF wf_language_name.isNone THEN English ELSE wf_language_name.val
    /\ wf_target_lang' = Chinese
    /\ wf_want_bilingual' = TRUE
    /\ wf_events' = Append(wf_events, "echo_model")
    /\ wf_pc' = "probe"
    /\ UNCHANGED <<wf_yes, wf_language_name, wf_connected, wf_result>>
    /\ UNCHANGED nonWorkflowVars

\* the user declines the translation: return None
Decline ==
    /\ wf_pc = "start"
    /\ ~wf_yes
    /\ wf_events' = Append(wf_events, "confirm_translate")
    /\ wf_result' = "None"
    /\ wf_pc' = "returned"
    /\ UNCHANGED <<wf_yes, wf_language_name, wf_source_lang, wf_target_lang,
                   wf_want_bilingual, wf_connected>>
    /\ UNCHANGED nonWorkflowVars

\* the user accepts and answers the prompts; recognized languages are replaced
\* by their canonical names; then the model is shown
AskLanguages ==
    /\ wf_pc = "start"
    /\ ~wf_yes
    /\ \E source \in PromptAnswers, target \in PromptAnswers, bilingual \in BOOLEAN :
          /\ wf_source_lang' = Canonical(source)
          /\ wf_target_lang' = Canonical(target)
          /\ wf_want_bilingual' = bilingual
          /\ wf_events' = wf_events
                \o <<"confirm_translate", "prompt_source", "prompt_target">>
                \o Warnings(<<source, target>>)
                \o <<"confirm_bilingual", "echo_model">>
    /\ wf_pc' = "probe"
    /\ UNCHANGED <<wf_yes, wf_language_name, wf_connected, wf_result>>
    /\ UNCHANGED nonWorkflowVars

ProbeIgnored ==
    /\ wf_pc = "probe"
    /\ \E p \in ProbeOutcomes :
          LET probe == CheckConnectionResult(p)
          IN  /\ probe.raised = "none"
              /\ wf_connected' = IF probe.value THEN "True" ELSE "False"
              /\ wf_events' = Append(wf_events, "check_connection") \o <<"echo_translating">>
              /\ wf_pc' = "translate"
              /\ UNCHANGED wf_result
    /\ UNCHANGED <<wf_yes, wf_language_name, wf_source_lang, wf_target_lang, wf_want_bilingual>>
    /\ UNCHANGED nonWorkflowVars

\* translator.check_connection(): when it is False the workflow reports that
\* the service cannot be reached and returns
ProbeService ==
    /\ wf_pc = "probe"
    /\ \E p \in ProbeOutcomes :
          LET probe == CheckConnectionResult(p)
          IN  /\ probe.raised = "none"
              /\ wf_connected' = IF probe.value THEN "True" ELSE "False"
              /\ IF probe.value
                 THEN /\ wf_events' = Append(wf_events, "check_connection")
                                         \o <<"echo_translating">>
                      /\ wf_pc' = "translate"
                      /\ UNCHANGED wf_result
                 ELSE /\ wf_events' = Append(wf_events, "check_connection")
                                         \o <<"echo_cannot_connect">>
                      /\ wf_pc' = "returned"
                      /\ wf_result' = "None"
    /\ UNCHANGED <<wf_yes, wf_language_name, wf_source_lang, wf_target_lang, wf_want_bilingual>>
    /\ UNCHANGED nonWorkflowVars

\* translator.translate_segments(...) inside the try: its exceptions are
\* reported and the workflow returns None
Translate ==
    /\ wf_pc = "translate"
    /\ \E outcome \in TranslationOutcomes :
          IF outcome = "returned"
          THEN /\ wf_events' = Append(wf_events, "translate_segments")
               /\ wf_pc' = "write"
               /\ UNCHANGED wf_result
          ELSE /\ wf_events' = Append(wf_events, "translate_segments")
                                  \o <<IF outcome = "ConnectionError"
                                       THEN "echo_connection_error"
                                       ELSE "echo_translation_error">>
               /\ wf_pc' = "returned"
               /\ wf_result' = "None"
    /\ UNCHANGED <<wf_yes, wf_language_name, wf_source_lang, wf_target_lang,
                   wf_want_bilingual, wf_connected>>
    /\ UNCHANGED nonWorkflowVars

\* writer.write_srt of the translated segments; the return when no bilingual
\* file is wanted
WriteTranslated ==
    /\ wf_pc = "write"
    /\ wf_events' = Append(wf_events, "write_translated_srt")
    /\ IF wf_want_bilingual
       THEN wf_pc' = "bilingual" /\ UNCHANGED wf_result
       ELSE wf_pc' = "returned" /\ wf_result' = "time"
    /\ UNCHANGED <<wf_yes, wf_language_name, wf_source_lang, wf_target_lang,
                   wf_want_bilingual, wf_connected>>
    /\ UNCHANGED nonWorkflowVars

\* writer.write_srt of the bilingual segments, and the return
WriteBilingual ==
    /\ wf_pc = "bilingual"
    /\ wf_events' = Append(wf_events, "write_bilingual_srt")
    /\ wf_pc' = "returned"
    /\ wf_result' = "time"
    /\ UNCHANGED <<wf_yes, wf_language_name, wf_source_lang, wf_target_lang,
                   wf_want_bilingual, wf_connected>>
    /\ UNCHANGED nonWorkflowVars

WorkflowNext ==
    \/ AskDefaults
    \/ Decline
    \/ AskLanguages
    \/ ProbeService
    \/ Translate
    \/ WriteTranslated
    \/ WriteBilingual

SpecWorkflow == WorkflowInit /\ [][WorkflowNext]_vars

Happened(event) == \E k \in 1..Len(wf_events) : wf_events[k] = event

\* C24: translate_segments is called only after check_connection returned
\* True; when it returned False the workflow reports the unreachable service
\* and returns with no translation request and no translated or bilingual
\* file written.
ProbeBeforeTranslation ==
    /\ \A k \in 1..Len(wf_events) :
          wf_events[k] = "translate_segments" =>
              /\ wf_connected = "True"
              /\ \E j \in 1..(k - 1) : wf_events[j] = "check_connection"
    /\ wf_pc = "translate" => wf_connected = "True"
    /\ wf_connected = "False" =>
          /\ wf_pc = "returned"
          /\ wf_result = "None"
          /\ Happened("echo_cannot_connect")
          /\ ~Happened("translate_segments")
          /\ ~Happened("write_translated_srt")
          /\ ~Happened("write_bilingual_srt")

\* the probe returned False and the workflow returned after its report
ProbeBeforeTranslationWitness ==
    /\ wf_connected = "False"
    /\ wf_pc = "returned"
    /\ wf_events[Len(wf_events)] = "echo_cannot_connect"
    /\ wf_events[Len(wf_events) - 1] = "check_connection"

----------------------------------------------------------------------------
(* More properties of the parser, under SpecParse *)

\* whether the loop of the parser takes a translation from the line
Matching(line) == MatchPattern(Strip(line)).matched

\* the response without its lines that the parser takes nothing from
WithoutOtherLines(resp) == JoinLines(SelectSeq(SplitLines(resp), Matching))

\* C25: lines that do not match the numbered pattern (a preamble, commentary,
\* blank lines), wherever they are in the response, do not change the result
\* of the parser: it is the result for the response without them; and the
\* parser raises nothing: its result is None or a list of expected_count texts.
OtherLinesIgnored ==
    parse_pc = "parsed" =>
        /\ parsed = ParseBatchResponse(WithoutOtherLines(response), expected_count)
        /\ parsed.isNone \/ Len(parsed.val) = expected_count

\* commentary between two numbered lines, and both translations are returned
OtherLinesIgnoredWitness ==
    /\ parse_pc = "parsed"
    /\ response = JoinLines(<< <<"1", ".", " ", "a">>, <<"h", "i">>, <<"2", ".", " ", "b">> >>)
    /\ expected_count = 2
    /\ parsed = Some(<< <<"a">>, <<"b">> >>)

\* the numbered lines of the response, in their order, as the pattern reads them
MatchedLines(resp) ==
    SelectSeq([k \in 1..Len(SplitLines(resp)) |-> MatchPattern(Strip(SplitLines(resp)[k]))],
              LAMBDA m : m.matched)

\* the numbered lines that carry the number i
LinesCarrying(resp, i) ==
    SelectSeq(MatchedLines(resp), LAMBDA m : StrToInt(m.group1) = i)

\* C29: the result is decided by the last line that carries each number of
\* 1..expected_count: None when a number has no line, otherwise the content of
\* the last line of each number; lines numbered 0 or above expected_count and
\* the earlier lines of a repeated number have no effect.
LastLineOfEachNumber ==
    parse_pc = "parsed" =>
        IF \E i \in 1..expected_count : LinesCarrying(response, i) = <<>>
        THEN parsed = None
        ELSE parsed = Some([i \in 1..expected_count |->
                 LET carrying == LinesCarrying(response, i)
                 IN  Strip(carrying[Len(carrying)].group2)])

\* number 1 twice with a line numbered above the expected count in between:
\* the later content is returned
LastLineOfEachNumberWitness ==
    /\ parse_pc = "parsed"
    /\ response = JoinLines(<< <<"1", ".", " ", "a">>, <<"1", "2", ".", " ", "m">>,
                               <<"1", ".", "x">> >>)
    /\ expected_count = 1
    /\ parsed = Some(<< <<"x">> >>)

----------------------------------------------------------------------------
(* The input of translate_segments, under Spec *)

\* the segments of the input, as EngineInit makes them from their texts
AsGiven(segs) ==
    \A i \in 1..Len(segs) :
        /\ segs[i] = MakeSegment(i, segs[i].text)
        /\ segs[i].text \in SegmentTexts

\* C27: translate_segments and the functions it calls do not change the
\* input: whatever the service does, no step changes the list of the caller
\* or a segment of it (length, order, start, end, text), so that after the
\* call the originals are what they were before it.
InputNotMutated == []AsGiven(segments) /\ [][segments' = segments]_vars

\* the call returned three translated segments whose texts all differ from
\* the texts of the input, and the input is as it was given
InputNotMutatedWitness ==
    /\ pc = "done"
    /\ Len(segments) = 3
    /\ Len(translated_segments) = 3
    /\ \A i \in 1..3 : translated_segments[i].text # segments[i].text
    /\ AsGiven(segments)

----------------------------------------------------------------------------
(* OllamaTranslator.__init__ and the partitioning of translate_segments *)

MaxTotal == 3

\* the batch_size a caller may construct the translator with
BatchSizeArguments == { PyNone, PyInt(0), PyInt(-1), PyInt(1), PyInt(2), PyInt(25) }

\* the 'batch_size' entry of the 'ollama' section after load_config: the
\* default 50 or what config.json gives, which json.load does not validate
ConfigBatchSizes == { PyInt(50), PyInt(3), PyInt(0), PyInt(-2), PyNone, PyStr, Absent }

\* dict.get(key, default)
DictGetDefault(entry, default) == IF entry.type = "absent" THEN default ELSE entry

\* a or b
Or(a, b) == IF Truthy(a) THEN a ELSE b

\* self.batch_size = batch_size or config['ollama'].get('batch_size', 50)
InitBatchSize(argument, entry) == Or(argument, DictGetDefault(entry, PyInt(50)))

\* range(0, total, step) for an int step: its values, or the exception for step 0
Range(total, step) ==
    IF step = 0 THEN [raised |-> "ValueError", values |-> <<>>]
    ELSE IF step < 0 THEN [raised |-> "none", values |-> <<>>]
    ELSE [raised |-> "none",
          values |-> [k \in 1..((total + step - 1) \div step) |-> (k - 1) * step]]

\* len(segments[batch_start:batch_end]) with batch_end = min(batch_start + step, total),
\* for the batch that starts at start
BatchLen(total, step, start) == Min(start + step, total) - start

RECURSIVE Sum(_)
Sum(ns) == IF ns = <<>> THEN 0 ELSE Head(ns) + Sum(Tail(ns))

ConstructInit ==
    /\ init_batch_size \in BatchSizeArguments
    /\ init_config \in ConfigBatchSizes
    /\ self_batch_size = PyNone
    /\ ts_total \in 1..MaxTotal
    /\ ts_batch_starts = <<>>
    /\ ts_returned = 0
    /\ ts_outcome = "pending"
    /\ init_pc = "new"
    /\ EngineIdle /\ LbIdle /\ ParseIdle /\ ClientIdle /\ ConfigIdle /\ SanitizeIdle
    /\ PromptIdle /\ LanguageIdle /\ WorkflowIdle

\* OllamaTranslator(batch_size=...)
Construct ==
    /\ init_pc = "new"
    /\ self_batch_size' = InitBatchSize(init_batch_size, init_config)
    /\ init_pc' = "constructed"
    /\ UNCHANGED <<init_batch_size, init_config, ts_total, ts_batch_starts, ts_returned,
                   ts_outcome>>
    /\ UNCHANGED nonConstructVars

\* translate_segments on ts_total segments with a service that translates every
\* batch it is sent: the range of the loop, and the batches extended into the
\* result; a step that is no int makes range raise TypeError
TranslateSegmentsPartition ==
    /\ init_pc = "constructed"
    /\ IF self_batch_size.type # "int"
       THEN /\ ts_outcome' = "TypeError"
            /\ UNCHANGED <<ts_batch_starts, ts_returned>>
       ELSE LET range == Range(ts_total, self_batch_size.val)
            IN  IF range.raised # "none"
                THEN /\ ts_outcome' = range.raised
                     /\ UNCHANGED <<ts_batch_starts, ts_returned>>
                ELSE /\ ts_outcome' = "returned"
                     /\ ts_batch_starts' = range.values
                     /\ ts_returned' = Sum([k \in 1..Len(range.values) |->
                            BatchLen(ts_total, self_batch_size.val, range.values[k])])
    /\ init_pc' = "ended"
    /\ UNCHANGED <<init_batch_size, init_config, self_batch_size, ts_total>>
    /\ UNCHANGED nonConstructVars

ConstructNext == Construct \/ TranslateSegmentsPartition

SpecConstruct == ConstructInit /\ [][ConstructNext]_vars

\* C28: after construction from any constructor arguments and any loaded
\* configuration, self.batch_size is a positive integer, and translate_segments
\* on a non-empty input processes at least one partition, returns no fewer
\* segments than it was given and does not fail in the construction of the range.
BatchSizePositive ==
    /\ init_pc \in {"constructed", "ended"} =>
          (self_batch_size.type = "int" /\ self_batch_size.val > 0)
    /\ init_pc = "ended" =>
          /\ ts_outcome = "returned"
          /\ Len(ts_batch_starts) >= 1
          /\ ts_returned >= ts_total

====
